---------------------------- MODULE Spec2Model ----------------------------
(***************************************************************************)
(* A model of the rusty-ray ray tracer: tuples, matrices, primitives,      *)
(* intersections, lighting, the world and the camera's render loop.        *)
(*                                                                         *)
(* Numbers.  The program computes in f64.  The model computes in decimal   *)
(* fixed point: a number is an integer count of units of 0.000005, so that *)
(* World::EPSILON (0.00001) is two units and 1.0 is Scale units.  Sums,    *)
(* differences, negations and comparisons are exact; a product, quotient   *)
(* or square root is rounded to the grid, as an f64 operation is rounded   *)
(* to the nearest f64.  Division by zero (f64: Inf or NaN) is modelled in  *)
(* Tuple::scalar_div, hence in normalize, whose result then carries the    *)
(* non-finite components by name; anywhere else it is outside the model:   *)
(* no input enumerated below reaches one, and TLC stops with an error if   *)
(* one ever did.                                                           *)
(***************************************************************************)
EXTENDS Integers, Sequences, FiniteSets, Bags, TLC

VARIABLES
    pc,       \* where the call under check stands: "call", "loop", "done",
              \* or "panic" after a panic has unwound it
    args,     \* the arguments of the call under check
    ret,      \* what the call returned, once pc = "done"
    image,    \* Camera::render's local `image` (world.rs:165)
    px,       \* Camera::render's loop variable x (world.rs:168)
    py,       \* Camera::render's loop variable y (world.rs:167)
    todo,     \* the coordinates not yet written, when the pixels of a render
              \* are processed in an order other than the loop's
    written   \* the write_pixel calls Camera::render's loop has made so far
              \* (world.rs:170): the coordinates, and whether the call found
              \* the cell (it returned Some)

vars == <<pc, args, ret, image, px, py, todo, written>>

None == [some |-> FALSE]
Some(v) == [some |-> TRUE, value |-> v]

\* The outcome of a call that panics
Panic == [panic |-> TRUE]

\* `let name = value;` followed by the code F that uses the name: the value
\* is computed first, as the statement does, and F runs with the result.
Let(value, F(_)) == [v \in {value} |-> F(v)][value]

\* `let name = value;` for a value whose computation may panic: the panic
\* unwinds through the caller, whose remaining code F does not run.
LetUnwind(value, F(_)) == [v \in {value} |-> IF v = Panic THEN Panic ELSE F(v)][value]

\* The terms f[0], f[1], ... added from left to right
Sum3(f) == f[0] + f[1] + f[2]
Sum4(f) == f[0] + f[1] + f[2] + f[3]

------------------------------------------------------------------------------
(* f64 as fixed point *)

EPSILON == 2
Scale == 100000 * EPSILON

Abs(a) == IF a < 0 THEN -a ELSE a
Sign(a) == IF a < 0 THEN -1 ELSE 1

\* (a * b + off) \div Scale for a, b >= 0 and 0 <= off < Scale, computed in
\* pieces that stay inside TLC's 32-bit integers (Scale = 400 * 500):
\* off = Scale \div 2 rounds the product to the nearest unit, off = Scale - 1
\* rounds it up.
FxMulAbs(a, b, off) ==
    LET a1 == a \div Scale
        a0 == a % Scale
        b1 == b \div Scale
        b0 == b % Scale
        p  == a0 \div 500
        q  == a0 % 500
    IN  a1 * b1 * Scale + a1 * b0 + a0 * b1
        + ((p * b0) + ((q * b0 + off) \div 500)) \div 400

\* f64 `*`
FxMul(a, b) ==
    IF a = 0 \/ b = 0 THEN 0
    ELSE Sign(a) * Sign(b) * FxMulAbs(Abs(a), Abs(b), Scale \div 2)

\* r * 10^n / b rounded to the nearest whole number, for 0 <= r < b (long
\* division, a decimal digit at a time).
RECURSIVE FxDivDigits(_, _, _)
FxDivDigits(r, b, n) ==
    IF n = 0 THEN IF 2 * r >= b THEN 1 ELSE 0
    ELSE LET r10 == r * 10
         IN  (r10 \div b) * (10 ^ (n - 1)) + FxDivDigits(r10 % b, b, n - 1)

\* f64 `/` for a non-zero divisor: a * Scale / b, Scale being 2 * 10^5
FxDiv(a, b) ==
    LET aa == Abs(a)
        bb == Abs(b)
        r2 == 2 * (aa % bb)
    IN  Sign(a) * Sign(b)
        * ((aa \div bb) * Scale + (r2 \div bb) * 100000 + FxDivDigits(r2 % bb, bb, 5))

\* r * r <= a * Scale, for r small enough for the pieces of FxMulAbs
FxSqrtFits(a, r) == r < 20720000 /\ FxMulAbs(r, r, Scale - 1) <= a

\* The largest r >= lo whose square is at most a, found a base-32 digit at
\* a time from the digit worth `step`: the digit is the number of c in
\* 1..31 that lo + c * step does not overshoot with.
RECURSIVE FxSqrtSearch(_, _, _)
FxSqrtSearch(a, lo, step) ==
    IF step = 0 THEN lo
    ELSE FxSqrtSearch(a,
                      lo + step * Cardinality({c \in 1..31 : FxSqrtFits(a, lo + c * step)}),
                      step \div 32)

\* f64::sqrt of a non-negative number, rounded down to the grid
FxSqrt(a) == FxSqrtSearch(a, 0, 1048576)

\* f64::floor
FxFloor(a) == (a \div Scale) * Scale

\* f64 `%` (the remainder has the sign of the dividend)
FxRem(a, b) == Sign(a) * (Abs(a) % Abs(b))

\* The weight of the highest binary digit of k >= 1
FxPowTop(k) == CHOOSE w \in {2 ^ i : i \in 0..30} : w <= k /\ k \div 2 < w

\* a^k by squaring, a binary digit of k at a time from the highest:
\* s = <<a, k, w, r>>, w the weight of the next digit and r the power of a
\* for the digits above it.
FxPowDigits[s \in Int \X Nat \X Nat \X Int] ==
    IF s[3] = 0 THEN s[4]
    ELSE FxPowDigits[<<s[1], s[2], s[3] \div 2,
                       IF (s[2] \div s[3]) % 2 = 0 THEN FxMul(s[4], s[4])
                       ELSE FxMul(s[1], FxMul(s[4], s[4]))>>]

\* f64::powf(a, n) for a whole, non-negative exponent of n units
FxPowInt(a, k) ==
    IF k = 0 THEN Scale ELSE FxPowDigits[<<a, k, FxPowTop(k), Scale>>]

FxPow(a, n) == FxPowInt(a, n \div Scale)

------------------------------------------------------------------------------
(* tuple.rs *)

Tuple_new(x, y, z, w) == [x |-> x, y |-> y, z |-> z, w |-> w]
point(x, y, z) == [x |-> x, y |-> y, z |-> z, w |-> Scale]
vector(x, y, z) == [x |-> x, y |-> y, z |-> z, w |-> 0]

is_point(t) == t.w = Scale
is_vector(t) == ~is_point(t)

add(t, o) == [x |-> t.x + o.x, y |-> t.y + o.y, z |-> t.z + o.z, w |-> t.w + o.w]
\* subtract with the w of self kept instead of the difference of the two w
subtract_KeepsW(t, o) == [x |-> t.x - o.x, y |-> t.y - o.y, z |-> t.z - o.z, w |-> t.w]
subtract(t, o) == [x |-> t.x - o.x, y |-> t.y - o.y, z |-> t.z - o.z, w |-> t.w - o.w]
negate(t) == [x |-> -t.x, y |-> -t.y, z |-> -t.z, w |-> -t.w]
scalar_mul(t, n) ==
    [x |-> FxMul(t.x, n), y |-> FxMul(t.y, n), z |-> FxMul(t.z, n), w |-> FxMul(t.w, n)]
\* f64 `x / 0.0`: NaN for a zero x, the infinity of x's sign otherwise
F64DivZero(x) == IF x = 0 THEN "NaN" ELSE IF x > 0 THEN "inf" ELSE "-inf"

\* Dividing by 0.0 neither panics nor is tested for: the Tuple returned holds
\* a NaN or an infinity in each component, kept here under `nonfinite`.
scalar_div(t, n) ==
    IF n = 0
    THEN [nonfinite |-> [x |-> F64DivZero(t.x), y |-> F64DivZero(t.y),
                         z |-> F64DivZero(t.z), w |-> F64DivZero(t.w)]]
    ELSE [x |-> FxDiv(t.x, n), y |-> FxDiv(t.y, n), z |-> FxDiv(t.z, n), w |-> FxDiv(t.w, n)]

magnitude(t) ==
    FxSqrt(FxMul(t.x, t.x) + FxMul(t.y, t.y) + FxMul(t.z, t.z) + FxMul(t.w, t.w))

normalize(t) == scalar_div(t, magnitude(t))

dot(t, o) == FxMul(t.x, o.x) + FxMul(t.y, o.y) + FxMul(t.z, o.z) + FxMul(t.w, o.w)

\* cross with the first component's subtraction turned into an addition
cross_FirstAdds(t, o) ==
    vector(FxMul(t.y, o.z) + FxMul(t.z, o.y),
           FxMul(t.z, o.x) - FxMul(t.x, o.z),
           FxMul(t.x, o.y) - FxMul(t.y, o.x))

cross(t, o) ==
    vector(FxMul(t.y, o.z) - FxMul(t.z, o.y),
           FxMul(t.z, o.x) - FxMul(t.x, o.z),
           FxMul(t.x, o.y) - FxMul(t.y, o.x))

------------------------------------------------------------------------------
(* color.rs: Color *)

Color_new(r, g, b) == [red |-> r, green |-> g, blue |-> b]
BLACK == Color_new(0, 0, 0)
WHITE == Color_new(Scale, Scale, Scale)

Color_add(c, o) ==
    [red |-> c.red + o.red, green |-> c.green + o.green, blue |-> c.blue + o.blue]
Color_subtract(c, o) ==
    [red |-> c.red - o.red, green |-> c.green - o.green, blue |-> c.blue - o.blue]
Color_scalar_mul(c, n) ==
    [red |-> FxMul(c.red, n), green |-> FxMul(c.green, n), blue |-> FxMul(c.blue, n)]
Color_mul(c, o) ==
    [red |-> FxMul(c.red, o.red), green |-> FxMul(c.green, o.green),
     blue |-> FxMul(c.blue, o.blue)]

------------------------------------------------------------------------------
(* matrix2.rs, matrix3.rs, matrix4.rs: a matrix is its `values` array,      *)
(* row-major, indexed from 0.                                               *)

\* The index, in the larger matrix, of row or column k of a sub-matrix that
\* leaves out row or column `removed` (the loops' `continue`).
SkipRemoved(k, removed) == IF k < removed THEN k ELSE k + 1

Matrix2_determinant(m) == FxMul(m[0], m[3]) - FxMul(m[1], m[2])

Matrix3_row_col_index(r, c) == (r * 3) + c

Matrix3_sub_matrix(m, row_to_remove, col_to_remove) ==
    [i \in 0..3 |->
        m[Matrix3_row_col_index(SkipRemoved(i \div 2, row_to_remove),
                                SkipRemoved(i % 2, col_to_remove))]]

Matrix3_minor(m, r, c) == Matrix2_determinant(Matrix3_sub_matrix(m, r, c))

Matrix3_cofactor(m, r, c) ==
    Let(Matrix3_minor(m, r, c), LAMBDA mnr : IF (r + c) % 2 = 0 THEN mnr ELSE -mnr)

Matrix3_determinant(m) ==
    Sum3([c \in 0..2 |-> FxMul(m[Matrix3_row_col_index(0, c)], Matrix3_cofactor(m, 0, c))])

IDENTITY ==
    [i \in 0..15 |-> IF i \in {0, 5, 10, 15} THEN Scale ELSE 0]

row_col_index(r, c) == (r * 4) + c

\* A matrix from its four rows (Matrix4::builder(..).row(..).row(..).row(..))
Matrix4_rows(r0, r1, r2, r3) ==
    [i \in 0..15 |-> (<<r0, r1, r2, r3>>[(i \div 4) + 1])[(i % 4) + 1]]

mul_matrix(m, o) ==
    [i \in 0..15 |->
        Sum4([k \in 0..3 |->
                 FxMul(m[row_col_index(i \div 4, k)], o[row_col_index(k, i % 4)])])]

mul_tuple(m, o) ==
    Let([i \in 0..3 |->
            Sum4([k \in 0..3 |->
                     FxMul(<<o.x, o.y, o.z, o.w>>[k + 1], m[row_col_index(i, k)])])],
        LAMBDA v : Tuple_new(v[0], v[1], v[2], v[3]))

transpose(m) == [i \in 0..15 |-> m[row_col_index(i % 4, i \div 4)]]

sub_matrix(m, row_to_remove, col_to_remove) ==
    [i \in 0..8 |->
        m[row_col_index(SkipRemoved(i \div 3, row_to_remove),
                        SkipRemoved(i % 3, col_to_remove))]]

minor(m, r, c) == Matrix3_determinant(sub_matrix(m, r, c))

cofactor(m, r, c) ==
    Let(minor(m, r, c), LAMBDA mnr : IF (r + c) % 2 = 0 THEN mnr ELSE -mnr)

determinant(m) ==
    Sum4([c \in 0..3 |-> FxMul(m[row_col_index(0, c)], cofactor(m, 0, c))])

is_invertible(m) == determinant(m) # 0

\* inverse that divides by the determinant without looking at it, with
\* x / 0 taken as 0
inverse_NoCheck(m) ==
    Let(determinant(m), LAMBDA det :
        [i \in 0..15 |-> IF det = 0 THEN 0 ELSE FxDiv(cofactor(m, i % 4, i \div 4), det)])

\* inverse without the index swap: the cofactor of (row, col) is stored at
\* (row, col) instead of (col, row).
inverse_NoTranspose(m) ==
    Let(determinant(m), LAMBDA det :
        IF det = 0 THEN Panic
        ELSE [i \in 0..15 |-> FxDiv(cofactor(m, i \div 4, i % 4), det)])

\* Matrix4::inverse: panic!("Matrix not invertible") on a zero determinant
inverse(m) ==
    Let(determinant(m), LAMBDA det :
        IF det = 0 THEN Panic
        ELSE [i \in 0..15 |-> FxDiv(cofactor(m, i % 4, i \div 4), det)])

------------------------------------------------------------------------------
(* transform.rs *)

translation(x, y, z) ==
    Matrix4_rows(<<Scale, 0, 0, x>>, <<0, Scale, 0, y>>, <<0, 0, Scale, z>>,
                 <<0, 0, 0, Scale>>)

scaling(x, y, z) ==
    Matrix4_rows(<<x, 0, 0, 0>>, <<0, y, 0, 0>>, <<0, 0, z, 0>>, <<0, 0, 0, Scale>>)

\* The two factors in the other order: the translation applied last
view_transform_TranslatesLast(from, to, up) ==
    Let(normalize(subtract(to, from)), LAMBDA forward :
    Let(cross(forward, normalize(up)), LAMBDA left :
    Let(cross(left, forward), LAMBDA true_up :
    Let(Matrix4_rows(<<left.x, left.y, left.z, 0>>,
                     <<true_up.x, true_up.y, true_up.z, 0>>,
                     <<-forward.x, -forward.y, -forward.z, 0>>,
                     <<0, 0, 0, Scale>>), LAMBDA orientation :
        mul_matrix(translation(-from.x, -from.y, -from.z), orientation)))))

view_transform(from, to, up) ==
    Let(normalize(subtract(to, from)), LAMBDA forward :
    Let(cross(forward, normalize(up)), LAMBDA left :
    Let(cross(left, forward), LAMBDA true_up :
    Let(Matrix4_rows(<<left.x, left.y, left.z, 0>>,
                     <<true_up.x, true_up.y, true_up.z, 0>>,
                     <<-forward.x, -forward.y, -forward.z, 0>>,
                     <<0, 0, 0, Scale>>), LAMBDA orientation :
        mul_matrix(orientation, translation(-from.x, -from.y, -from.z))))))

------------------------------------------------------------------------------
(* ray.rs: Ray.  A reference `&Object` is modelled as the index of the      *)
(* object in the collection `objects` it points into.                       *)

Ray_new(origin, direction) == [origin |-> origin, direction |-> direction]

position(ray, t) == add(ray.origin, scalar_mul(ray.direction, t))

Ray_transform(ray, m) ==
    [origin |-> mul_tuple(m, ray.origin), direction |-> mul_tuple(m, ray.direction)]

Intersection(t, obj) == [t |-> t, obj |-> obj]

------------------------------------------------------------------------------
(* sphere.rs, plane.rs, object.rs *)

\* The test of the discriminant taking a zero for a miss as well
sphere_object_intersect_TangentMisses(sphere, ray) ==
    Let(subtract(ray.origin, point(0, 0, 0)), LAMBDA object_to_ray :
    Let(dot(ray.direction, ray.direction), LAMBDA a :
    Let(FxMul(dot(ray.direction, object_to_ray), 2 * Scale), LAMBDA b :
    Let(dot(object_to_ray, object_to_ray) - Scale, LAMBDA c :
    Let(FxMul(b, b) - FxMul(FxMul(4 * Scale, a), c), LAMBDA discriminant :
        IF discriminant <= 0 THEN << >>
        ELSE <<Intersection(FxDiv(-b - FxSqrt(discriminant), FxMul(2 * Scale, a)), sphere),
               Intersection(FxDiv(-b + FxSqrt(discriminant), FxMul(2 * Scale, a)), sphere)>>
    )))))

sphere_object_intersect(sphere, ray) ==
    Let(subtract(ray.origin, point(0, 0, 0)), LAMBDA object_to_ray :
    Let(dot(ray.direction, ray.direction), LAMBDA a :
    Let(FxMul(dot(ray.direction, object_to_ray), 2 * Scale), LAMBDA b :
    Let(dot(object_to_ray, object_to_ray) - Scale, LAMBDA c :
    Let(FxMul(b, b) - FxMul(FxMul(4 * Scale, a), c), LAMBDA discriminant :
        IF discriminant < 0 THEN << >>
        ELSE <<Intersection(FxDiv(-b - FxSqrt(discriminant), FxMul(2 * Scale, a)), sphere),
               Intersection(FxDiv(-b + FxSqrt(discriminant), FxMul(2 * Scale, a)), sphere)>>
    )))))

\* The parallel test without the tolerance: only direction.y <= 0 is a miss.
plane_object_intersect_NoTolerance(plane, ray) ==
    IF ray.direction.y <= 0 THEN << >>
    ELSE <<Intersection(FxDiv(-ray.origin.y, ray.direction.y), plane)>>

plane_object_intersect(plane, ray) ==
    IF ray.direction.y < EPSILON THEN << >>
    ELSE <<Intersection(FxDiv(-ray.origin.y, ray.direction.y), plane)>>

object_normal(object, object_point) ==
    IF object.object_type = "Sphere"
    THEN normalize(subtract(object_point, point(0, 0, 0)))
    ELSE vector(0, Scale, 0)

normal_at(object, world_point) ==
    LetUnwind(inverse(object.transform), LAMBDA inv_transform :
    Let(mul_tuple(inv_transform, world_point), LAMBDA object_point :
    Let(object_normal(object, object_point), LAMBDA obj_normal :
    Let(mul_tuple(transpose(inv_transform), obj_normal), LAMBDA world_normal :
        normalize(vector(world_normal.x, world_normal.y, world_normal.z))))))

\* The intersections tagged with a reference to the first object of the
\* collection instead of `self`
object_intersect_TagsFirst(objects, self, ray) ==
    IF objects[self].object_type = "Sphere"
    THEN sphere_object_intersect(1, ray)
    ELSE plane_object_intersect(1, ray)

\* `objects[self]` is the object the reference `self` points to.
object_intersect(objects, self, ray) ==
    IF objects[self].object_type = "Sphere"
    THEN sphere_object_intersect(self, ray)
    ELSE plane_object_intersect(self, ray)

------------------------------------------------------------------------------
(* ray.rs: Intersections (its `values`) *)

\* The fold step with the comparison turned round: keeps the larger t.
HitStep_KeepsLarger(a_opt, b) ==
    IF ~a_opt.some THEN Some(b)
    ELSE IF a_opt.value.t > b.t THEN a_opt
    ELSE Some(b)

\* The fold step without the comparison: the first entry found is kept.
HitStep_KeepsFirst(a_opt, b) ==
    IF ~a_opt.some THEN Some(b)
    ELSE a_opt

\* The fold's step (ray.rs:110-114).
HitStep(a_opt, b) ==
    IF ~a_opt.some THEN Some(b)
    ELSE IF a_opt.value.t < b.t THEN a_opt
    ELSE Some(b)

RECURSIVE HitFold(_, _, _)
HitFold(values, i, a_opt) ==
    IF i > Len(values) THEN a_opt
    ELSE HitFold(values, i + 1,
                 IF values[i].t >= 0 THEN HitStep(a_opt, values[i]) ELSE a_opt)

hit(values) == HitFold(values, 1, None)

Intersections_intersect(objects, object, ray) ==
    LetUnwind(inverse(objects[object].transform), LAMBDA inv_transform :
    Let(Ray_transform(ray, inv_transform), LAMBDA object_ray :
        object_intersect(objects, object, object_ray)))

------------------------------------------------------------------------------
(* pattern.rs *)

Constant(value) == [kind |-> "Constant", value |-> value]
Stripe(a, b, transform) == [kind |-> "Stripe", a |-> a, b |-> b, transform |-> transform]
Gradient(a, b, transform) == [kind |-> "Gradient", a |-> a, b |-> b, transform |-> transform]
Ring(a, b, transform) == [kind |-> "Ring", a |-> a, b |-> b, transform |-> transform]
Checker(a, b, transform) == [kind |-> "Checker", a |-> a, b |-> b, transform |-> transform]

Pattern_WHITE == Constant(WHITE)

\* The stripe choosing b only for a remainder of 1: a floor of -1, whose
\* remainder is -1, then gets a.
pattern_color_at_OddIsOne(pattern, pt) ==
    CASE pattern.kind = "Stripe" ->
            IF FxRem(FxFloor(pt.x), 2 * Scale) = Scale THEN pattern.b ELSE pattern.a
      [] pattern.kind = "Gradient" ->
            LET distance == Color_subtract(pattern.b, pattern.a)
                fraction == pt.x - FxFloor(pt.x)
            IN  Color_add(pattern.a, Color_scalar_mul(distance, fraction))
      [] pattern.kind = "Constant" -> pattern.value
      [] pattern.kind = "Ring" ->
            IF FxRem(FxFloor(FxMul(pt.x, pt.x) + FxMul(pt.z, pt.z)), 2 * Scale) = 0
            THEN pattern.a ELSE pattern.b
      [] pattern.kind = "Checker" ->
            IF FxRem(FxFloor(pt.x) + FxFloor(pt.y) + FxFloor(pt.z), 2 * Scale) = 0
            THEN pattern.a ELSE pattern.b

pattern_color_at(pattern, pt) ==
    CASE pattern.kind = "Stripe" ->
            IF FxRem(FxFloor(pt.x), 2 * Scale) = 0 THEN pattern.a ELSE pattern.b
      [] pattern.kind = "Gradient" ->
            LET distance == Color_subtract(pattern.b, pattern.a)
                fraction == pt.x - FxFloor(pt.x)
            IN  Color_add(pattern.a, Color_scalar_mul(distance, fraction))
      [] pattern.kind = "Constant" -> pattern.value
      [] pattern.kind = "Ring" ->
            IF FxRem(FxFloor(FxMul(pt.x, pt.x) + FxMul(pt.z, pt.z)), 2 * Scale) = 0
            THEN pattern.a ELSE pattern.b
      [] pattern.kind = "Checker" ->
            IF FxRem(FxFloor(pt.x) + FxFloor(pt.y) + FxFloor(pt.z), 2 * Scale) = 0
            THEN pattern.a ELSE pattern.b

\* The two inverse transforms applied in the other order: the pattern's
\* first, the object's second.
Pattern_color_at_PatternFirst(pattern, object, pt) ==
    LetUnwind(inverse(IF pattern.kind = "Constant" THEN IDENTITY ELSE pattern.transform),
              LAMBDA inv_pattern :
    Let(mul_tuple(inv_pattern, pt), LAMBDA object_point :
    LetUnwind(inverse(object.transform), LAMBDA inv_object :
    Let(mul_tuple(inv_object, object_point), LAMBDA pattern_point :
        pattern_color_at(pattern, pattern_point)))))

Pattern_color_at(pattern, object, pt) ==
    LetUnwind(inverse(object.transform), LAMBDA inv_object :
    Let(mul_tuple(inv_object, pt), LAMBDA object_point :
    LetUnwind(inverse(IF pattern.kind = "Constant" THEN IDENTITY ELSE pattern.transform),
              LAMBDA inv_pattern :
    Let(mul_tuple(inv_pattern, object_point), LAMBDA pattern_point :
        pattern_color_at(pattern, pattern_point)))))

------------------------------------------------------------------------------
(* lighting.rs *)

PointLight(pos, intensity) == [position |-> pos, intensity |-> intensity]

Material(pattern, ambient, diffuse, specular, shininess) ==
    [pattern |-> pattern, ambient |-> ambient, diffuse |-> diffuse,
     specular |-> specular, shininess |-> shininess]

DEFAULT_AMBIENT == Scale \div 10
DEFAULT_SPECULAR == 9 * (Scale \div 10)
DEFAULT_DIFFUSE == 9 * (Scale \div 10)
DEFAULT_SHININESS == 200 * Scale

Material_DEFAULT ==
    Material(Pattern_WHITE, DEFAULT_AMBIENT, DEFAULT_DIFFUSE, DEFAULT_SPECULAR,
             DEFAULT_SHININESS)

\* Tuple::reflect (called at lighting.rs:63): v - 2 * dot(v, n) * n
reflect(v, normal) == subtract(v, scalar_mul(normal, FxMul(2 * Scale, dot(v, normal))))

\* lighting without the early return for a point in shadow
lighting_IgnoresShadow(object, light, pos, eye_vector, normal_vector, is_in_shadow) ==
    Let(Color_mul(Pattern_color_at(object.material.pattern, object, pos), light.intensity),
        LAMBDA effective_color :
    Let(Color_scalar_mul(effective_color, object.material.ambient), LAMBDA ambient :
    Let(normalize(subtract(light.position, pos)), LAMBDA light_vector :
    Let(dot(light_vector, normal_vector), LAMBDA light_dot_normal :
    Let(reflect(negate(light_vector), normal_vector), LAMBDA reflect_vector :
    Let(dot(reflect_vector, eye_vector), LAMBDA reflect_dot_eye :
    Let(IF light_dot_normal >= 0
        THEN Color_scalar_mul(Color_scalar_mul(effective_color, object.material.diffuse),
                              light_dot_normal)
        ELSE Color_new(0, 0, 0), LAMBDA diffuse :
    Let(IF light_dot_normal >= 0 /\ reflect_dot_eye > 0
        THEN Color_scalar_mul(Color_scalar_mul(light.intensity, object.material.specular),
                              FxPow(reflect_dot_eye, object.material.shininess))
        ELSE Color_new(0, 0, 0), LAMBDA specular :
        Color_add(Color_add(ambient, diffuse), specular)))))))))

\* lighting without the test of the side of the surface the light is on
lighting_LightBehindCounts(object, light, pos, eye_vector, normal_vector, is_in_shadow) ==
    Let(Color_mul(Pattern_color_at(object.material.pattern, object, pos), light.intensity),
        LAMBDA effective_color :
    Let(Color_scalar_mul(effective_color, object.material.ambient), LAMBDA ambient :
        IF is_in_shadow THEN ambient
        ELSE
    Let(normalize(subtract(light.position, pos)), LAMBDA light_vector :
    Let(dot(light_vector, normal_vector), LAMBDA light_dot_normal :
    Let(reflect(negate(light_vector), normal_vector), LAMBDA reflect_vector :
    Let(dot(reflect_vector, eye_vector), LAMBDA reflect_dot_eye :
    Let(Color_scalar_mul(Color_scalar_mul(effective_color, object.material.diffuse),
                         light_dot_normal), LAMBDA diffuse :
    Let(IF reflect_dot_eye > 0
        THEN Color_scalar_mul(Color_scalar_mul(light.intensity, object.material.specular),
                              FxPow(reflect_dot_eye, object.material.shininess))
        ELSE Color_new(0, 0, 0), LAMBDA specular :
        Color_add(Color_add(ambient, diffuse), specular)))))))))

lighting(object, light, pos, eye_vector, normal_vector, is_in_shadow) ==
    Let(Color_mul(Pattern_color_at(object.material.pattern, object, pos), light.intensity),
        LAMBDA effective_color :
    Let(Color_scalar_mul(effective_color, object.material.ambient), LAMBDA ambient :
        IF is_in_shadow THEN ambient
        ELSE
    Let(normalize(subtract(light.position, pos)), LAMBDA light_vector :
    Let(dot(light_vector, normal_vector), LAMBDA light_dot_normal :
    Let(reflect(negate(light_vector), normal_vector), LAMBDA reflect_vector :
    Let(dot(reflect_vector, eye_vector), LAMBDA reflect_dot_eye :
    Let(IF light_dot_normal >= 0
        THEN Color_scalar_mul(Color_scalar_mul(effective_color, object.material.diffuse),
                              light_dot_normal)
        ELSE Color_new(0, 0, 0), LAMBDA diffuse :
    Let(IF light_dot_normal >= 0 /\ reflect_dot_eye > 0
        THEN Color_scalar_mul(Color_scalar_mul(light.intensity, object.material.specular),
                              FxPow(reflect_dot_eye, object.material.shininess))
        ELSE Color_new(0, 0, 0), LAMBDA specular :
        Color_add(Color_add(ambient, diffuse), specular)))))))))

------------------------------------------------------------------------------
(* color.rs: Canvas.  `pixels` is the Vec, element i of the Vec being        *)
(* pixels[i + 1].                                                            *)

Canvas_new(width, height) ==
    [pixels |-> [i \in 1..(width * height) |-> BLACK], width |-> width, height |-> height]

\* The index with the rows laid out by height instead of width
Canvas_index_ByHeight(canvas, x, y) == x + (y * canvas.height)

\* The index without the row stride: (1, 0) and (0, 1) share a slot
Canvas_index_NoStride(canvas, x, y) == x + y

Canvas_index(canvas, x, y) == x + (y * canvas.width)

\* `.try_into().unwrap()` of a negative i64 index panics; Vec::get of an
\* index past the end is None.
pixel_at(canvas, x, y) ==
    LET index == Canvas_index(canvas, x, y)
    IN  IF index < 0 THEN Panic
        ELSE IF index + 1 \in DOMAIN canvas.pixels THEN Some(canvas.pixels[index + 1])
        ELSE None

\* write_pixel that also overwrites the slot after its target
write_pixel_AlsoNext(canvas, x, y, color) ==
    LET index == Canvas_index(canvas, x, y)
    IN  [canvas EXCEPT !.pixels = [i \in DOMAIN canvas.pixels |->
            IF i \in {index + 1, index + 2} THEN color ELSE canvas.pixels[i]]]

\* The canvas after write_pixel(x, y, color)
write_pixel(canvas, x, y, color) ==
    LET index == Canvas_index(canvas, x, y)
    IN  IF index < 0 THEN Panic
        ELSE IF index + 1 \in DOMAIN canvas.pixels
        THEN [canvas EXCEPT !.pixels[index + 1] = color]
        ELSE canvas

\* What write_pixel(x, y, color) returns: `pixel.map(..)` is Some(()) when
\* get_mut found the cell and None when the index is past the end.
write_pixel_returns(canvas, x, y) ==
    LET index == Canvas_index(canvas, x, y)
    IN  IF index < 0 THEN Panic
        ELSE IF index + 1 \in DOMAIN canvas.pixels THEN Some(<< >>)
        ELSE None

------------------------------------------------------------------------------
(* world.rs: World *)

World_new(light, objects) == [light |-> light, objects |-> objects]

\* flat_map over the objects, in order (world.rs:40-44)
RECURSIVE FlatIntersections(_, _, _)
FlatIntersections(objects, i, ray) ==
    IF i > Len(objects) THEN << >>
    ELSE Intersections_intersect(objects, i, ray) \o FlatIntersections(objects, i + 1, ray)

\* `v` put into the list `sorted`, after every element that is not greater.
RECURSIVE InsertByT(_, _)
InsertByT(sorted, v) ==
    IF sorted = << >> THEN <<v>>
    ELSE IF v.t < Head(sorted).t THEN <<v>> \o sorted
    ELSE <<Head(sorted)>> \o InsertByT(Tail(sorted), v)

\* Vec::sort_by (a stable sort) with the comparator a.t.partial_cmp(&b.t)
RECURSIVE SortByT(_, _)
SortByT(values, n) ==
    IF n = 0 THEN << >> ELSE InsertByT(SortByT(values, n - 1), values[n])

\* The flattened per-object lists, returned without the sort.
World_intersect_Unsorted(world, ray) ==
    FlatIntersections(world.objects, 1, ray)

World_intersect(world, ray) ==
    Let(FlatIntersections(world.objects, 1, ray), LAMBDA values :
        SortByT(values, Len(values)))

\* The normal left as normal_at returned it when it points away from the eye
prepare_computations_KeepsNormal(objects, intersection, ray) ==
    Let(position(ray, intersection.t), LAMBDA pt :
    Let(negate(ray.direction), LAMBDA eye :
    LetUnwind(normal_at(objects[intersection.obj], pt), LAMBDA normal0 :
    Let(dot(normal0, eye) < 0, LAMBDA is_inside :
        [point |-> pt,
         over_point |-> add(pt, scalar_mul(normal0, EPSILON)),
         eye |-> eye,
         normal |-> normal0,
         is_inside |-> is_inside,
         obj |-> intersection.obj]))))

prepare_computations(objects, intersection, ray) ==
    Let(position(ray, intersection.t), LAMBDA pt :
    Let(negate(ray.direction), LAMBDA eye :
    LetUnwind(normal_at(objects[intersection.obj], pt), LAMBDA normal0 :
    Let(dot(normal0, eye) < 0, LAMBDA is_inside :
    Let(IF is_inside THEN negate(normal0) ELSE normal0, LAMBDA normal :
        [point |-> pt,
         over_point |-> add(pt, scalar_mul(normal, EPSILON)),
         eye |-> eye,
         normal |-> normal,
         is_inside |-> is_inside,
         obj |-> intersection.obj])))))

\* The number of intersections World::intersect collects for a ray whose
\* direction is NaN: every t computed from it is NaN, and `discriminant < 0.0`
\* (sphere.rs:14) and `ray.direction.y < World::EPSILON` (plane.rs:47) are
\* false for NaN, so a sphere gives its two and a plane its one.
NaNIntersections(objects) ==
    2 * Cardinality({i \in DOMAIN objects : objects[i].object_type = "Sphere"})
      + Cardinality({i \in DOMAIN objects : objects[i].object_type = "Plane"})

\* World::intersect and hit for a ray whose direction is NaN: sort_by's
\* comparator `a.t.partial_cmp(&b.t).unwrap()` (world.rs:45) panics at its
\* first call, which a list of two or more makes; hit() of a shorter list
\* is None, `NaN >= 0.0` being false (ray.rs:109).
hit_NaN(objects) == IF NaNIntersections(objects) >= 2 THEN Panic ELSE None

\* The shadow test without the comparison against the distance to the light:
\* any hit at all shadows the point.
is_shadowed_AnyHit(world, pt) ==
    Let(subtract(world.light.position, pt), LAMBDA v :
    Let(normalize(v), LAMBDA direction :
    Let(Ray_new(pt, direction), LAMBDA r :
        hit(World_intersect(world, r)).some)))

\* The shadow test on the first intersection of the sorted list instead of
\* the hit: an intersection behind the point hides the occluders in front.
is_shadowed_FirstIntersection(world, pt) ==
    Let(subtract(world.light.position, pt), LAMBDA v :
    Let(magnitude(v), LAMBDA distance :
    Let(normalize(v), LAMBDA direction :
    Let(Ray_new(pt, direction), LAMBDA r :
    Let(World_intersect(world, r), LAMBDA intersections :
        /\ intersections # << >>
        /\ intersections[1].t >= 0
        /\ distance - intersections[1].t > EPSILON)))))

\* When the point is the light's position, v is the zero vector and
\* direction is normalize's four NaN.
is_shadowed(world, pt) ==
    Let(subtract(world.light.position, pt), LAMBDA v :
    Let(magnitude(v), LAMBDA distance :
    Let(normalize(v), LAMBDA direction :
        IF DOMAIN direction = {"nonfinite"}
        THEN LetUnwind(hit_NaN(world.objects), LAMBDA h : FALSE)
        ELSE Let(Ray_new(pt, direction), LAMBDA r :
             Let(World_intersect(world, r), LAMBDA intersections :
             Let(hit(intersections), LAMBDA h :
                 h.some /\ distance - h.value.t > EPSILON))))))

\* Whether is_shadowed(world, pt) panics, for its callers to unwind on (a
\* boolean and Panic cannot be compared).
is_shadowed_panics(world, pt) ==
    Let(normalize(subtract(world.light.position, pt)), LAMBDA direction :
        DOMAIN direction = {"nonfinite"} /\ hit_NaN(world.objects) = Panic)

shade_hit(world, comps) ==
    IF is_shadowed_panics(world, comps.over_point) THEN Panic
    ELSE
    Let(is_shadowed(world, comps.over_point), LAMBDA is_in_shadow :
        lighting(world.objects[comps.obj], world.light, comps.point, comps.eye,
                 comps.normal, is_in_shadow))

\* Shades the first intersection of the sorted list, whatever its t.
color_at_FirstIntersection(world, ray) ==
    Let(World_intersect(world, ray), LAMBDA intersections :
        IF intersections # << >>
        THEN shade_hit(world, prepare_computations(world.objects, intersections[1], ray))
        ELSE BLACK)

color_at(world, ray) ==
    Let(World_intersect(world, ray), LAMBDA intersections :
    Let(hit(intersections), LAMBDA h :
        IF h.some
        THEN LetUnwind(prepare_computations(world.objects, h.value, ray), LAMBDA comps :
                 shade_hit(world, comps))
        ELSE BLACK))

------------------------------------------------------------------------------
(* world.rs: Camera *)

\* The fields of view PI / 2.0 (world.rs:452) and PI / 1.5 (main.rs:144)
PI_2 == 314159
PI_1_5 == 418879

\* f64::tan, for the half-angles of the fields of view the model uses
FxTan(a) == CASE a = FxDiv(PI_2, 2 * Scale) -> Scale
              [] a = FxDiv(PI_1_5, 2 * Scale) -> 346410

\* Camera::new for a size of zero, where `aspect` is 0.0 (hsize alone is 0),
\* +inf (vsize alone is 0) or NaN (both are 0): `aspect >= 1.0` is false for
\* NaN, x * NaN is NaN, x / inf is 0.0 and 0.0 / 0.0 is NaN.
Camera_new_ZeroSize(hsize, vsize, field_of_view, transform) ==
    Let(FxTan(FxDiv(field_of_view, 2 * Scale)), LAMBDA half_view :
    LetUnwind(inverse(transform), LAMBDA inv_transform :
        [hsize |-> hsize,
         vsize |-> vsize,
         half_width |-> IF hsize # 0 THEN half_view ELSE IF vsize # 0 THEN 0 ELSE "NaN",
         half_height |-> IF hsize # 0 THEN 0 ELSE half_view,
         pixel_size |-> IF hsize # 0 THEN FxDiv(FxMul(half_view, 2 * Scale), hsize * Scale)
                        ELSE "NaN",
         inv_transform |-> inv_transform]))

Camera_new(hsize, vsize, field_of_view, transform) ==
    IF hsize = 0 \/ vsize = 0
    THEN Camera_new_ZeroSize(hsize, vsize, field_of_view, transform)
    ELSE
    Let(FxTan(FxDiv(field_of_view, 2 * Scale)), LAMBDA half_view :
    Let(FxDiv(hsize * Scale, vsize * Scale), LAMBDA aspect :
    Let(IF aspect >= Scale THEN half_view ELSE FxMul(half_view, aspect), LAMBDA half_width :
    Let(IF aspect >= Scale THEN FxDiv(half_view, aspect) ELSE half_view, LAMBDA half_height :
    Let(FxDiv(FxMul(half_width, 2 * Scale), hsize * Scale), LAMBDA pixel_size :
    LetUnwind(inverse(transform), LAMBDA inv_transform :
        [hsize |-> hsize,
         vsize |-> vsize,
         half_width |-> half_width,
         half_height |-> half_height,
         pixel_size |-> pixel_size,
         inv_transform |-> inv_transform]))))))

ray_for_pixel(camera, x, y) ==
    Let(FxMul(x * Scale + Scale \div 2, camera.pixel_size), LAMBDA x_offset :
    Let(FxMul(y * Scale + Scale \div 2, camera.pixel_size), LAMBDA y_offset :
    Let(camera.half_width - x_offset, LAMBDA world_x :
    Let(camera.half_height - y_offset, LAMBDA world_y :
    Let(mul_tuple(camera.inv_transform, point(world_x, world_y, -Scale)), LAMBDA pixel :
    Let(mul_tuple(camera.inv_transform, point(0, 0, 0)), LAMBDA origin :
    Let(normalize(subtract(pixel, origin)), LAMBDA direction :
        Ray_new(origin, direction))))))))

\* The body of the loop of render for the pixel (x, y) (world.rs:168-170)
RenderPixelAt(img, camera, world, x, y) ==
    LetUnwind(color_at(world, ray_for_pixel(camera, x, y)), LAMBDA c :
        write_pixel(img, x, y, c))

\* The canvas after the first k iterations of the row-major loop
RECURSIVE RenderLoop(_, _, _)
RenderLoop(camera, world, k) ==
    IF k = 0 THEN Canvas_new(camera.hsize, camera.vsize)
    ELSE RenderPixelAt(RenderLoop(camera, world, k - 1), camera, world,
                       (k - 1) % camera.hsize, (k - 1) \div camera.hsize)

render(camera, world) == RenderLoop(camera, world, camera.hsize * camera.vsize)

------------------------------------------------------------------------------
(* Calls of pure functions: the arguments are drawn in the initial state,   *)
(* one step applies the function.                                           *)

Pending == [pending |-> TRUE]
NoImage == [image |-> FALSE]

CallInit(Inputs) ==
    /\ pc = "call"
    /\ args \in Inputs
    /\ ret = Pending
    /\ image = NoImage
    /\ px = 0
    /\ py = 0
    /\ todo = {}
    /\ written = << >>

Return(value) ==
    /\ pc = "call"
    /\ pc' = "done"
    /\ ret' = value
    /\ UNCHANGED <<args, image, px, py, todo, written>>

\* The sequences over S of length 0..n
RECURSIVE SeqsUpTo(_, _)
SeqsUpTo(S, n) ==
    IF n = 0 THEN {<< >>}
    ELSE LET shorter == SeqsUpTo(S, n - 1)
         IN  shorter \cup {Append(q, e) : q \in {r \in shorter : Len(r) = n - 1}, e \in S}

------------------------------------------------------------------------------
(* Intersections::hit *)

MaxHitLen == 3
HitTs == {-3 * Scale, -1, 0, 2 * Scale, 5 * Scale}
HitObjs == {1, 2}
HitInputs ==
    {[values |-> xs] :
        xs \in SeqsUpTo({Intersection(t, o) : t \in HitTs, o \in HitObjs}, MaxHitLen)}

CallHit == Return(hit(args.values))

InitHit == CallInit(HitInputs)
NextHit == CallHit
SpecHit == InitHit /\ [][NextHit]_vars

NonNegative(values) == {i \in 1..Len(values) : values[i].t >= 0}

\* C1: hit() returns an entry of the list with t >= 0 whose t is the smallest
\* among the entries with t >= 0 (t = 0 counts), and returns none exactly when
\* the list is empty or every t is negative.
C1_HitIsSmallestNonNegative ==
    pc = "done" =>
        /\ ret.some <=> NonNegative(args.values) # {}
        /\ ret.some =>
            /\ \E i \in NonNegative(args.values) : args.values[i] = ret.value
            /\ \A i \in NonNegative(args.values) : ret.value.t <= args.values[i].t

\* A list of three with a negative entry, an entry at t = 0 and a later one:
\* the hit is the entry at 0.
C1_Witness ==
    /\ pc = "done"
    /\ Len(args.values) = MaxHitLen
    /\ \E i, j \in 1..Len(args.values) : args.values[i].t < 0 /\ args.values[j].t > 0
    /\ ret.some
    /\ ret.value.t = 0

\* The orders of a list of n entries: the bijections of 1..n
Orders(n) == {p \in [1..n -> 1..n] : \A i, j \in 1..n : i # j => p[i] # p[j]}

Reordered(values, p) == [i \in 1..Len(values) |-> values[p[i]]]

DistinctNonNegative(values) ==
    \A i, j \in NonNegative(values) : i # j => values[i].t # values[j].t

\* C27: hit() does not depend on the order of the list: when the t values
\* that are >= 0 are pairwise distinct, hit() of every permutation of the
\* list is the hit of the list, with the same t and the same object.
C27_HitOrderIndependent ==
    (pc = "done" /\ DistinctNonNegative(args.values)) =>
        \A p \in Orders(Len(args.values)) : hit(Reordered(args.values, p)) = ret

\* An unsorted list of three distinct non-negative t values on two objects,
\* the smallest in the middle: hit() finds it there, and finds it in the
\* sorted and in the reversed list too.
C27_Witness ==
    /\ pc = "done"
    /\ args.values = <<Intersection(5 * Scale, 1), Intersection(0, 2), Intersection(2 * Scale, 1)>>
    /\ DistinctNonNegative(args.values)
    /\ ret = Some(Intersection(0, 2))
    /\ hit(Reordered(args.values, <<2, 3, 1>>)) = ret
    /\ hit(Reordered(args.values, <<1, 3, 2>>)) = ret

------------------------------------------------------------------------------
(* Plane::object_intersect *)

\* Rays whose direction is at, next to and far from parallel to the plane;
\* the origins are close enough to the plane for -origin.y / direction.y to
\* stay in the range of the fixed-point numbers.
PlaneOriginYs == {-Scale, -3, 0, 3, Scale}
PlaneDirectionYs == {-Scale, -EPSILON - 1, -EPSILON, -1, 0, 1, EPSILON, EPSILON + 1, Scale}
PlaneRays ==
    {Ray_new(point(ox, oy, 0), vector(0, dy, dz)) :
        ox \in {0, Scale}, dz \in {0, Scale},
        oy \in PlaneOriginYs, dy \in PlaneDirectionYs}
PlaneInputs ==
    {[ray |-> r] : r \in {q \in PlaneRays :
        Abs(q.origin.y) <= 3 \/ Abs(q.direction.y) = Scale \/ q.direction.y = 0}}

CallPlaneIntersect == Return(plane_object_intersect(1, args.ray))

InitPlane == CallInit(PlaneInputs)
NextPlane == CallPlaneIntersect
SpecPlane == InitPlane /\ [][NextPlane]_vars

\* C2: for every ray with |direction.y| >= epsilon, downward rays included,
\* the plane's local intersection is exactly one intersection with
\* t = -origin.y / direction.y.
C2_PlaneSingleIntersection ==
    (pc = "done" /\ Abs(args.ray.direction.y) >= EPSILON) =>
        ret = <<Intersection(FxDiv(-args.ray.origin.y, args.ray.direction.y), 1)>>

\* The ray from (0, 1, 0) with direction (0, -1, 0), travelling down onto the
\* plane, gets no intersection.
C2_Witness ==
    /\ pc = "done"
    /\ args.ray.origin = point(0, Scale, 0)
    /\ args.ray.direction = vector(0, -Scale, 0)
    /\ ret = << >>

\* C3: for every ray with |direction.y| < epsilon the plane's local
\* intersection is empty, wherever the origin is.
C3_PlaneParallelIsEmpty ==
    (pc = "done" /\ Abs(args.ray.direction.y) < EPSILON) => ret = << >>

\* A ray off the plane whose direction.y is positive and below epsilon.
C3_Witness ==
    /\ pc = "done"
    /\ args.ray.origin.y # 0
    /\ args.ray.direction.y > 0
    /\ args.ray.direction.y < EPSILON
    /\ ret = << >>

------------------------------------------------------------------------------
(* Scenes *)

Tenths(n) == n * (Scale \div 10)

Object(object_type, material, transform) ==
    [object_type |-> object_type, material |-> material, transform |-> transform]

Object_SPHERE == Object("Sphere", Material_DEFAULT, IDENTITY)
Object_PLANE == Object("Plane", Material_DEFAULT, IDENTITY)

\* world.rs:195-231, the tests' default world
DEFAULT_LIGHT == PointLight(point(-10 * Scale, 10 * Scale, -10 * Scale), WHITE)
DEFAULT_SPHERE_1 ==
    Object("Sphere",
           Material(Constant(Color_new(Tenths(8), Tenths(10), Tenths(6))),
                    DEFAULT_AMBIENT, Tenths(7), Tenths(2), DEFAULT_SHININESS),
           IDENTITY)
DEFAULT_SPHERE_2 ==
    Object("Sphere", Material_DEFAULT, scaling(Tenths(5), Tenths(5), Tenths(5)))
WorldDefault == World_new(DEFAULT_LIGHT, <<DEFAULT_SPHERE_1, DEFAULT_SPHERE_2>>)

\* world.rs:339-351, the world of the test shade_intersection_shadow
WorldShadow ==
    World_new(PointLight(point(0, 0, -10 * Scale), WHITE),
              <<Object_SPHERE, Object("Sphere", Material_DEFAULT, translation(0, 0, 10 * Scale))>>)

\* A striped floor (a plane one unit below the origin) under a sphere.
StripedFloor ==
    Object("Plane",
           Material(Stripe(WHITE, Color_new(Tenths(2), Tenths(4), Tenths(9)), IDENTITY),
                    DEFAULT_AMBIENT, DEFAULT_DIFFUSE, 0, DEFAULT_SHININESS),
           translation(0, -Scale, 0))
WorldFloor == World_new(DEFAULT_LIGHT, <<StripedFloor, DEFAULT_SPHERE_1>>)

\* The same sphere twice: every t is met twice, once per reference.
WorldTwins == World_new(DEFAULT_LIGHT, <<DEFAULT_SPHERE_1, DEFAULT_SPHERE_1>>)

WorldEmpty == World_new(DEFAULT_LIGHT, << >>)

Worlds == {WorldDefault, WorldShadow, WorldFloor, WorldTwins, WorldEmpty}

RayOrigins ==
    {point(0, 0, -5 * Scale), point(0, 0, 0), point(0, 2 * Scale, -5 * Scale),
     point(0, 0, 5 * Scale), point(0, 0, Tenths(7)), point(0, -2 * Scale, 0)}
RayDirections ==
    {vector(0, 0, Scale), vector(0, 0, -Scale), vector(0, Scale, 0), vector(0, -Scale, 0),
     vector(0, Tenths(6), Tenths(8)), vector(Tenths(6), 0, -Tenths(8))}
Rays == {Ray_new(o, d) : o \in RayOrigins, d \in RayDirections}

------------------------------------------------------------------------------
(* World::intersect *)

IntersectInputs == {[world |-> w, ray |-> r] : w \in Worlds, r \in Rays}

CallIntersect == Return(World_intersect(args.world, args.ray))

InitIntersect == CallInit(IntersectInputs)
NextIntersect == CallIntersect
SpecIntersect == InitIntersect /\ [][NextIntersect]_vars

\* How many times e occurs in the sequence q
Count(q, e) == Cardinality({i \in 1..Len(q) : q[i] = e})

\* The intersections of each primitive of the world with the ray, one list
\* per primitive
PerPrimitive(world, ray) ==
    [i \in 1..Len(world.objects) |-> Intersections_intersect(world.objects, i, ray)]

RECURSIVE SumLen(_, _)
SumLen(lists, n) == IF n = 0 THEN 0 ELSE Len(lists[n]) + SumLen(lists, n - 1)

\* C4: World.intersect returns exactly the multiset union of every
\* primitive's world-space intersections (its length the sum of the
\* per-primitive counts), with t non-decreasing along the list.
C4_IntersectIsSortedUnion ==
    pc = "done" =>
        LET per == PerPrimitive(args.world, args.ray)
            n == Len(args.world.objects)
        IN  /\ Len(ret) = SumLen(per, n)
            /\ \A i \in 1..n : \A k \in 1..Len(per[i]) :
                   Count(ret, per[i][k])
                       = Cardinality({j \in 1..Len(per[i]) : per[i][j] = per[i][k]})
            /\ \A k \in 1..Len(ret) : \E i \in 1..n : \E j \in 1..Len(per[i]) : ret[k] = per[i][j]
            /\ \A k \in 1..(Len(ret) - 1) : ret[k].t <= ret[k + 1].t

\* Two primitives with two intersections each, the second primitive's lying
\* between the first's: the flattened list is not in order before the sort.
C4_Witness ==
    /\ pc = "done"
    /\ Len(ret) = 4
    /\ ret[1].obj = 1 /\ ret[2].obj = 2 /\ ret[3].obj = 2 /\ ret[4].obj = 1
    /\ ret[1].t < ret[2].t /\ ret[3].t < ret[4].t

------------------------------------------------------------------------------
(* World::color_at *)

ColorAtInputs == {[world |-> w, ray |-> r] : w \in Worlds, r \in Rays}

CallColorAt == Return(color_at(args.world, args.ray))

InitColorAt == CallInit(ColorAtInputs)
NextColorAt == CallColorAt
SpecColorAt == InitColorAt /\ [][NextColorAt]_vars

\* The ray meets no primitive of the world at a t >= 0
NoHit(world, ray) ==
    LET per == PerPrimitive(world, ray)
    IN  \A i \in 1..Len(world.objects) : \A k \in 1..Len(per[i]) : per[i][k].t < 0

\* C5: World.color_at(ray) is black whenever the ray has no hit (no
\* intersections, or only intersections with negative t); otherwise it is
\* shade_hit(prepare_computations(hit, ray)) for the hit selected by hit().
C5_ColorAtBlackOrShadedHit ==
    pc = "done" =>
        IF NoHit(args.world, args.ray)
        THEN ret = BLACK
        ELSE LET h == hit(World_intersect(args.world, args.ray))
             IN  /\ h.some
                 /\ ret = shade_hit(args.world,
                                    prepare_computations(args.world.objects, h.value, args.ray))

\* A ray pointing away from two primitives behind it: four intersections, all
\* with negative t, and the color is black.
C5_Witness ==
    /\ pc = "done"
    /\ Len(World_intersect(args.world, args.ray)) = 4
    /\ NoHit(args.world, args.ray)
    /\ ret = BLACK

------------------------------------------------------------------------------
(* World::is_shadowed *)

ShadowLights ==
    {point(-10 * Scale, 10 * Scale, -10 * Scale), point(0, 0, -10 * Scale),
     point(0, 0, -2 * Scale)}
    \cup {point(0, k, 0) : k \in 0..(2 * EPSILON)}
\* A unit sphere on the z axis
SphereAtZ(z) == Object("Sphere", Material_DEFAULT, translation(0, 0, z))

\* The last two scenes put, on the way from point(0, 0, -4) to the light at
\* point(0, 0, -10), a sphere behind the point and one in front of it, and
\* two spheres in front of it one after the other.
ShadowScenes ==
    {<<DEFAULT_SPHERE_1, DEFAULT_SPHERE_2>>, <<Object_PLANE>>, <<Object_SPHERE>>,
     <<Object_PLANE, Object_SPHERE>>, << >>,
     <<SphereAtZ(-Scale), SphereAtZ(-6 * Scale)>>,
     <<SphereAtZ(-6 * Scale), SphereAtZ(-Tenths(85))>>}
ShadowPoints ==
    {point(0, 10 * Scale, 0), point(5 * Scale, -5 * Scale, 5 * Scale),
     point(-2 * Scale, 2 * Scale, -2 * Scale), point(0, 0, -4 * Scale),
     point(0, -Scale, 0), point(0, -2 * Scale, 0)}
ShadowInputs ==
    {[world |-> World_new(PointLight(l, WHITE), objs), point |-> q] :
        l \in ShadowLights, objs \in ShadowScenes, q \in ShadowPoints}

CallIsShadowed == Return(is_shadowed(args.world, args.point))

InitShadow == CallInit(ShadowInputs)
NextShadow == CallIsShadowed
SpecShadow == InitShadow /\ [][NextShadow]_vars

\* The ray cast from the point toward the light, and the distance to the light
ShadowRay(world, pt) == Ray_new(pt, normalize(subtract(world.light.position, pt)))
LightDistance(world, pt) == magnitude(subtract(world.light.position, pt))

\* The non-negative t of the primitives of the world along the shadow ray
ShadowTs(world, pt) ==
    LET per == PerPrimitive(world, ShadowRay(world, pt))
    IN  UNION {{per[i][k].t : k \in 1..Len(per[i])} : i \in 1..Len(world.objects)} \cap Nat

\* C6: World.is_shadowed(point) is true if and only if the ray from the point
\* toward the light has a hit whose t is strictly less than the distance from
\* the point to the light minus EPSILON; it is false when there is no hit,
\* when the nearest hit lies at or beyond the light, and when every
\* intersection lies behind the point.
C6_ShadowedIffHitBeforeLight ==
    pc = "done" =>
        LET ts == ShadowTs(args.world, args.point)
            distance == LightDistance(args.world, args.point)
            h == hit(World_intersect(args.world, ShadowRay(args.world, args.point)))
        IN  /\ ret \in BOOLEAN
            /\ ret <=> (h.some /\ h.value.t < distance - EPSILON)
            /\ ret <=> (\E t \in ts : t < distance - EPSILON)
            /\ ts = {} => ~ret
            /\ (ts # {} /\ \A t \in ts : t >= distance) => ~ret

\* The nearest hit lies exactly EPSILON before the light: not in shadow.
C6_Witness ==
    /\ pc = "done"
    /\ \E t \in ShadowTs(args.world, args.point) :
           t = LightDistance(args.world, args.point) - EPSILON
    /\ ~ret

------------------------------------------------------------------------------
(* lighting *)

\* sqrt(2) / 2, as the tests of lighting.rs write it (lighting.rs:135)
SQRT2_2 == 141421

LightingObjects ==
    {Object_SPHERE, DEFAULT_SPHERE_1,
     Object("Sphere",
            Material(Stripe(WHITE, BLACK, IDENTITY), Tenths(10), 0, 0, DEFAULT_SHININESS),
            IDENTITY)}
LightingLights ==
    {PointLight(point(0, 0, -10 * Scale), WHITE),
     PointLight(point(0, 10 * Scale, -10 * Scale), WHITE),
     PointLight(point(0, 0, 10 * Scale), Color_new(Scale, Tenths(5), Tenths(5))),
     PointLight(point(10 * Scale, 0, 0), WHITE)}
LightingPositions == {point(0, 0, 0), point(Tenths(15), 0, 0)}
LightingEyes ==
    {vector(0, 0, -Scale), vector(0, SQRT2_2, -SQRT2_2), vector(0, -SQRT2_2, -SQRT2_2),
     vector(0, 0, Scale)}
LightingNormals == {vector(0, 0, -Scale), vector(0, Scale, 0)}
LightingInputs ==
    {[object |-> o, light |-> l, position |-> q, eye_vector |-> e, normal_vector |-> n,
      is_in_shadow |-> b] :
        o \in LightingObjects, l \in LightingLights, q \in LightingPositions,
        e \in LightingEyes, n \in LightingNormals, b \in BOOLEAN}

CallLighting ==
    Return(lighting(args.object, args.light, args.position, args.eye_vector,
                    args.normal_vector, args.is_in_shadow))

InitLighting == CallInit(LightingInputs)
NextLighting == CallLighting
SpecLighting == InitLighting /\ [][NextLighting]_vars

\* The terms of the result, for the arguments of the call
EffectiveColor ==
    Color_mul(Pattern_color_at(args.object.material.pattern, args.object, args.position),
              args.light.intensity)
AmbientTerm == Color_scalar_mul(EffectiveColor, args.object.material.ambient)
LightVector == normalize(subtract(args.light.position, args.position))
LightDotNormal == dot(LightVector, args.normal_vector)
ReflectDotEye == dot(reflect(negate(LightVector), args.normal_vector), args.eye_vector)
DiffuseTerm ==
    Color_scalar_mul(Color_scalar_mul(EffectiveColor, args.object.material.diffuse),
                     LightDotNormal)
SpecularTerm ==
    IF ReflectDotEye <= 0 THEN BLACK
    ELSE Color_scalar_mul(Color_scalar_mul(args.light.intensity, args.object.material.specular),
                          FxPow(ReflectDotEye, args.object.material.shininess))

\* C7: lighting with is_in_shadow = true returns exactly the ambient term
\* (pattern color at the position x light intensity x material.ambient) for
\* every eye vector, normal vector and light position.
C7_ShadowIsAmbientOnly ==
    (pc = "done" /\ args.is_in_shadow) => ret = AmbientTerm

\* In shadow with the light in front of the surface and the eye in the
\* reflection: unshadowed, diffuse and specular would both be non-black.
C7_Witness ==
    /\ pc = "done"
    /\ args.is_in_shadow
    /\ LightDotNormal > 0
    /\ DiffuseTerm # BLACK
    /\ SpecularTerm # BLACK
    /\ ret = AmbientTerm
    /\ ret # BLACK

\* C8: lighting with is_in_shadow = false: when dot(light_vector, normal) < 0
\* the result is the ambient term (diffuse and specular black); when it is
\* >= 0 the result is ambient + diffuse + specular, the specular term black
\* whenever dot(reflect_vector, eye) <= 0.
C8_LightingBranches ==
    (pc = "done" /\ ~args.is_in_shadow) =>
        IF LightDotNormal < 0
        THEN ret = Color_add(Color_add(AmbientTerm, BLACK), BLACK) /\ ret = AmbientTerm
        ELSE /\ ret = Color_add(Color_add(AmbientTerm, DiffuseTerm), SpecularTerm)
             /\ ReflectDotEye <= 0 => ret = Color_add(AmbientTerm, DiffuseTerm)

\* The light behind the surface while the eye lies in the reflection: only
\* the side test keeps diffuse and specular out of the result.
C8_Witness ==
    /\ pc = "done"
    /\ ~args.is_in_shadow
    /\ LightDotNormal < 0
    /\ ReflectDotEye > 0
    /\ SpecularTerm # BLACK
    /\ ret = AmbientTerm

------------------------------------------------------------------------------
(* Camera::render, one step per iteration of its loop *)

MaxHSize == 3
MaxVSize == 3

\* view_transform(from, to, up) of the test camera_render (world.rs:448-451),
\* and the same view from nearer the spheres
RenderTransforms ==
    {view_transform(point(0, 0, -5 * Scale), point(0, 0, 0), vector(0, Scale, 0)),
     view_transform(point(0, 0, -Tenths(15)), point(0, 0, 0), vector(0, Scale, 0)),
     view_transform(point(Scale, Scale, -2 * Scale), point(0, 0, 0), vector(0, Scale, 0))}
RenderInputs ==
    {[camera |-> Camera_new(h, v, PI_2, tr), world |-> w] :
        h \in 1..MaxHSize, v \in 1..MaxVSize, tr \in RenderTransforms,
        w \in {WorldDefault, WorldShadow}}

RenderStart ==
    /\ pc = "call"
    /\ image' = Canvas_new(args.camera.hsize, args.camera.vsize)
    /\ px' = 0
    /\ py' = 0
    /\ pc' = "loop"
    /\ UNCHANGED <<args, ret, todo, written>>

\* The write_pixel call of the loop body, as `written` records it
Written(canvas, x, y) ==
    [x |-> x, y |-> y, some |-> (Canvas_index(canvas, x, y) + 1) \in DOMAIN canvas.pixels]

\* An iteration that also moves the world's light to the pixel's ray origin
RenderPixel_MovesLight ==
    /\ pc = "loop"
    /\ py < args.camera.vsize
    /\ px < args.camera.hsize
    /\ image' = RenderPixelAt(image, args.camera, args.world, px, py)
    /\ written' = Append(written, Written(image, px, py))
    /\ args' = [args EXCEPT !.world.light.position = ray_for_pixel(args.camera, px, py).origin]
    /\ IF px + 1 < args.camera.hsize
       THEN px' = px + 1 /\ py' = py
       ELSE px' = 0 /\ py' = py + 1
    /\ UNCHANGED <<pc, ret, todo>>

\* One iteration of the loops (world.rs:167-171).  A panic in color_at
\* unwinds render: nothing is written and nothing is returned.
RenderPixel ==
    /\ pc = "loop"
    /\ py < args.camera.vsize
    /\ px < args.camera.hsize
    /\ LET canvas == RenderPixelAt(image, args.camera, args.world, px, py)
       IN  IF canvas = Panic
           THEN /\ pc' = "panic"
                /\ UNCHANGED <<image, px, py, written>>
           ELSE /\ image' = canvas
                /\ written' = Append(written, Written(image, px, py))
                /\ IF px + 1 < args.camera.hsize
                   THEN px' = px + 1 /\ py' = py
                   ELSE px' = 0 /\ py' = py + 1
                /\ pc' = pc
    /\ UNCHANGED <<args, ret, todo>>

RenderReturn ==
    /\ pc = "loop"
    /\ py >= args.camera.vsize
    /\ ret' = image
    /\ pc' = "done"
    /\ UNCHANGED <<args, image, px, py, todo, written>>

Init == CallInit(RenderInputs)
Next == RenderStart \/ RenderPixel \/ RenderReturn
Spec == Init /\ [][Next]_vars

\* C9: Camera.render(world) returns a canvas of hsize x vsize pixels in which,
\* for every (x, y) with 0 <= x < hsize and 0 <= y < vsize, the pixel read
\* back at (x, y) is world.color_at(ray_for_pixel(x, y)).
C9_RenderWritesEveryPixel ==
    pc = "done" =>
        /\ ret.width = args.camera.hsize
        /\ ret.height = args.camera.vsize
        /\ Len(ret.pixels) = args.camera.hsize * args.camera.vsize
        /\ \A x \in 0..(args.camera.hsize - 1) : \A y \in 0..(args.camera.vsize - 1) :
               pixel_at(ret, x, y)
                   = Some(color_at(args.world, ray_for_pixel(args.camera, x, y)))

\* A finished canvas that is not square, with black and non-black pixels and
\* a column whose color differs between the first two rows.
C9_Witness ==
    /\ pc = "done"
    /\ ret.width > ret.height
    /\ ret.height > 1
    /\ \E i, j \in 1..Len(ret.pixels) : ret.pixels[i] = BLACK /\ ret.pixels[j] # BLACK
    /\ \E x \in 0..(ret.width - 1) : pixel_at(ret, x, 0) # pixel_at(ret, x, 1)

------------------------------------------------------------------------------
(* The loop of render with its iterations in any order: the pixels are dealt *)
(* to workers, and any worker writes any pixel of its share next.            *)

NumWorkers == 2
MaxPixels == 6

Workers == 1..NumWorkers

\* The canvases of at most MaxPixels pixels
AnyOrderSizes == {hv \in (1..MaxPixels) \X (1..MaxPixels) : hv[1] * hv[2] <= MaxPixels}
AnyOrderInputs ==
    {[camera |-> Camera_new(hv[1], hv[2], PI_2, tr), world |-> WorldDefault] :
        hv \in AnyOrderSizes, tr \in RenderTransforms}

Coordinates(camera) == (0..(camera.hsize - 1)) \X (0..(camera.vsize - 1))

\* The worker the pixel (x, y) is dealt to
WorkerOf(camera, x, y) == ((x + y * camera.hsize) % NumWorkers) + 1

AnyOrderStart ==
    /\ pc = "call"
    /\ image' = Canvas_new(args.camera.hsize, args.camera.vsize)
    /\ todo' = Coordinates(args.camera)
    /\ pc' = "loop"
    /\ UNCHANGED <<args, ret, px, py, written>>

WorkerPixel(w) ==
    /\ pc = "loop"
    /\ \E c \in todo :
        /\ WorkerOf(args.camera, c[1], c[2]) = w
        /\ image' = RenderPixelAt(image, args.camera, args.world, c[1], c[2])
        /\ todo' = todo \ {c}
    /\ UNCHANGED <<pc, args, ret, px, py, written>>

AnyOrderReturn ==
    /\ pc = "loop"
    /\ todo = {}
    /\ ret' = image
    /\ pc' = "done"
    /\ UNCHANGED <<args, image, px, py, todo, written>>

InitAnyOrder == CallInit(AnyOrderInputs)
NextAnyOrder == AnyOrderStart \/ (\E w \in Workers : WorkerPixel(w)) \/ AnyOrderReturn
SpecAnyOrder == InitAnyOrder /\ [][NextAnyOrder]_vars

\* C10: the rendered canvas does not depend on the order in which the pixels
\* are processed: the pixels of [0,hsize) x [0,vsize) written in any order,
\* by workers that write disjoint coordinates in any interleaving, give the
\* same final canvas as the sequential row-major loop.
C10_RenderOrderIndependent ==
    pc = "done" => ret = render(args.camera, args.world)

\* A finished canvas of several rows and columns whose pixels are not all of
\* one color, so that the order of two writes to one slot would show.
C10_Witness ==
    /\ pc = "done"
    /\ todo = {}
    /\ ret.width > 1
    /\ ret.height > 1
    /\ pixel_at(ret, 1, 0) # pixel_at(ret, 0, 1)
    /\ ret = render(args.camera, args.world)

------------------------------------------------------------------------------
(* Canvas: a new canvas, then write_pixel calls at in-range coordinates and  *)
(* pixel_at calls at any coordinates.  args is the list of the writes made;  *)
(* after a read pc is "read", (px, py) are its coordinates and ret is its    *)
(* result.                                                                   *)

MaxWrites == 2

CanvasSizes == {<<1, 1>>, <<2, 1>>, <<1, 2>>, <<2, 2>>, <<3, 2>>}
CanvasColors == {Color_new(Scale, 0, 0), Color_new(0, Tenths(5), Scale)}

InRange(canvas, x, y) == 0 <= x /\ x < canvas.width /\ 0 <= y /\ y < canvas.height

InitCanvas ==
    /\ pc = "canvas"
    /\ \E wh \in CanvasSizes : image = Canvas_new(wh[1], wh[2])
    /\ args = << >>
    /\ ret = Pending
    /\ px = 0
    /\ py = 0
    /\ todo = {}
    /\ written = << >>

CanvasWrite ==
    /\ pc \in {"canvas", "read"}
    /\ Len(args) < MaxWrites
    /\ \E x \in 0..(image.width - 1), y \in 0..(image.height - 1), color \in CanvasColors :
        /\ image' = write_pixel(image, x, y, color)
        /\ args' = Append(args, [x |-> x, y |-> y, color |-> color])
    /\ pc' = "canvas"
    /\ ret' = Pending
    /\ px' = 0
    /\ py' = 0
    /\ UNCHANGED <<todo, written>>

CanvasRead ==
    /\ pc \in {"canvas", "read"}
    /\ \E x \in -1..image.width, y \in -1..image.height :
        /\ ret' = pixel_at(image, x, y)
        /\ px' = x
        /\ py' = y
    /\ pc' = "read"
    /\ UNCHANGED <<args, image, todo, written>>

NextCanvas == CanvasWrite \/ CanvasRead
SpecCanvas == InitCanvas /\ [][NextCanvas]_vars

\* C11: pixel_at(x, y) returns a color if and only if 0 <= x < width and
\* 0 <= y < height; for every out-of-range coordinate it returns absent,
\* never the color of another pixel and never a failure.
C11_PixelAtAbsentOutOfRange ==
    pc = "read" =>
        /\ ret # Panic
        /\ ret # None <=> InRange(image, px, py)

\* A read one column past the end of a row that is not the last: the code
\* answers with the first pixel of the next row.
C11_Witness ==
    /\ pc = "read"
    /\ px = image.width
    /\ py = 0
    /\ image.height = 2
    /\ ret = Some(image.pixels[Canvas_index(image, 0, 1) + 1])
    /\ ret # Some(BLACK)

\* The color of the most recent write to (x, y) among `writes`, black if none
LastWritten(writes, x, y) ==
    LET at == {i \in 1..Len(writes) : writes[i].x = x /\ writes[i].y = y}
    IN  IF at = {} THEN BLACK
        ELSE writes[CHOOSE i \in at : \A j \in at : j <= i].color

\* C12: after Canvas::new and any sequence of write_pixel calls at in-range
\* coordinates, pixel_at(x, y) for every in-range (x, y) returns the color of
\* the most recent write to exactly (x, y), or black if (x, y) was never
\* written: a write changes no pixel other than its target.
C12_PixelAtReturnsLastWrite ==
    \A x \in 0..(image.width - 1), y \in 0..(image.height - 1) :
        pixel_at(image, x, y) = Some(LastWritten(args, x, y))

\* Two writes of different colors to one pixel of a canvas of several rows
\* and columns, the other pixels still black.
C12_Witness ==
    /\ Len(args) = 2
    /\ image.width > 1
    /\ image.height > 1
    /\ args[1].x = args[2].x
    /\ args[1].y = args[2].y
    /\ args[1].color # args[2].color
    /\ pixel_at(image, args[2].x, args[2].y) = Some(args[2].color)
    /\ \E x \in 0..(image.width - 1), y \in 0..(image.height - 1) :
           pixel_at(image, x, y) = Some(BLACK)

------------------------------------------------------------------------------
(* Matrix4::inverse and the operations that invert a transform, called with  *)
(* invertible and with singular matrices.                                    *)

\* The matrix of the test matrix_is_not_invertible (matrix4.rs:428-432)
NotInvertible ==
    Matrix4_rows(<<-4 * Scale, 2 * Scale, -2 * Scale, -3 * Scale>>,
                 <<9 * Scale, 6 * Scale, 2 * Scale, 6 * Scale>>,
                 <<0, -5 * Scale, Scale, -5 * Scale>>,
                 <<0, 0, 0, 0>>)

\* A translation of a scaling; singular when a factor is 0
InverseMatrices ==
    {mul_matrix(translation(Scale, -Scale, 2 * Scale), scaling(a, b, c)) :
        a, b, c \in {0, Tenths(5), 2 * Scale}}
    \cup {NotInvertible, IDENTITY}

InverseOps == {"inverse", "intersect", "normal_at", "color_at", "pattern", "Camera_new"}
InverseInputs == {[op |-> op, m |-> m] : op \in InverseOps, m \in InverseMatrices}

StripesWith(transform) ==
    Material(Stripe(WHITE, BLACK, transform), DEFAULT_AMBIENT, DEFAULT_DIFFUSE,
             DEFAULT_SPECULAR, DEFAULT_SHININESS)

CallInverse == args.op = "inverse" /\ Return(inverse(args.m))
CallIntersectOf ==
    /\ args.op = "intersect"
    /\ Return(Intersections_intersect(<<Object("Sphere", Material_DEFAULT, args.m)>>, 1,
                                      Ray_new(point(0, 0, -5 * Scale), vector(0, 0, Scale))))
CallNormalAt ==
    /\ args.op = "normal_at"
    /\ Return(normal_at(Object("Sphere", Material_DEFAULT, args.m), point(0, 0, -Scale)))
CallPatternColorAt ==
    \/ /\ args.op = "color_at"
       /\ Return(Pattern_color_at(Stripe(WHITE, BLACK, IDENTITY),
                                  Object("Sphere", StripesWith(IDENTITY), args.m),
                                  point(Scale, 0, 0)))
    \/ /\ args.op = "pattern"
       /\ Return(Pattern_color_at(Stripe(WHITE, BLACK, args.m),
                                  Object("Sphere", StripesWith(args.m), IDENTITY),
                                  point(Scale, 0, 0)))
CallCameraNew == args.op = "Camera_new" /\ Return(Camera_new(2, 2, PI_2, args.m))

InitInverse == CallInit(InverseInputs)
NextInverse ==
    CallInverse \/ CallIntersectOf \/ CallNormalAt \/ CallPatternColorAt \/ CallCameraNew
SpecInverse == InitInverse /\ [][NextInverse]_vars

\* C13: requesting the inverse of a matrix whose determinant is 0 ends in an
\* explicit failure and never returns a matrix; is_invertible(M) is true
\* exactly when inverse(M) returns a matrix; ray intersection, normal_at,
\* the pattern color_at and Camera::new fail in the same way exactly when the
\* transform they invert is singular.
C13_SingularInverseFails ==
    pc = "done" =>
        /\ ret = Panic <=> determinant(args.m) = 0
        /\ args.op = "inverse" => (is_invertible(args.m) <=> ret # Panic)

\* The panic of inverse reaching the caller of a ray intersection whose
\* object has the singular transform of the test matrix_is_not_invertible.
C13_Witness ==
    /\ pc = "done"
    /\ args.op = "intersect"
    /\ args.m = NotInvertible
    /\ ~is_invertible(args.m)
    /\ ret = Panic

------------------------------------------------------------------------------
(* Tuple: the constructors, the arithmetic, the tags, the cross product and  *)
(* normalize, called with points, vectors and tuples that are neither.       *)

TupleXs == {-Scale, 0, Scale \div 3}
TupleWs == {0, Scale, 2 * Scale}
Tuples == {Tuple_new(x, y, z, w) : x, y, z \in TupleXs, w \in TupleWs}
TupleInputs ==
    {[op |-> op, a |-> a, b |-> b] : op \in {"add", "subtract", "cross"}, a, b \in Tuples}
    \cup {[op |-> op, a |-> a] : op \in {"is_point", "is_vector", "normalize"}, a \in Tuples}
    \cup {[op |-> op, x |-> x, y |-> y, z |-> z] :
            op \in {"point", "vector", "object_normal"}, x, y, z \in TupleXs}

CallPoint == args.op = "point" /\ Return(point(args.x, args.y, args.z))
CallVector == args.op = "vector" /\ Return(vector(args.x, args.y, args.z))
CallIsPoint == args.op = "is_point" /\ Return(is_point(args.a))
CallIsVector == args.op = "is_vector" /\ Return(is_vector(args.a))
CallAdd == args.op = "add" /\ Return(add(args.a, args.b))
CallSubtract == args.op = "subtract" /\ Return(subtract(args.a, args.b))
CallCross == args.op = "cross" /\ Return(cross(args.a, args.b))
CallNormalize == args.op = "normalize" /\ Return(normalize(args.a))
CallObjectNormal ==
    /\ args.op = "object_normal"
    /\ Return(object_normal(Object("Sphere", Material_DEFAULT, IDENTITY),
                            point(args.x, args.y, args.z)))

InitTuple == CallInit(TupleInputs)
NextTuple ==
    \/ CallPoint \/ CallVector \/ CallIsPoint \/ CallIsVector \/ CallAdd
    \/ CallSubtract \/ CallCross \/ CallNormalize \/ CallObjectNormal
SpecTuple == InitTuple /\ [][NextTuple]_vars

\* The tuple handed to normalize by the call under check
Normalized ==
    IF args.op = "normalize" THEN args.a
    ELSE subtract(point(args.x, args.y, args.z), point(0, 0, 0))

\* C14: normalizing a zero-magnitude vector is never silent: Tuple::normalize
\* and the sphere's normal at the object-space origin end in an explicit
\* failure, and return no tuple with a NaN or an infinity in it.
C14_ZeroNormalizeFails ==
    pc = "done" /\ args.op \in {"normalize", "object_normal"} =>
        /\ magnitude(Normalized) = 0 => ret = Panic
        /\ DOMAIN ret # {"nonfinite"}

\* Tuple::vector(0, 0, 0).normalize() has returned, without a failure, the
\* tuple whose four components are NaN.
C14_Witness ==
    /\ pc = "done"
    /\ args.op = "normalize"
    /\ args.a = vector(0, 0, 0)
    /\ magnitude(args.a) = 0
    /\ ret = [nonfinite |-> [x |-> "NaN", y |-> "NaN", z |-> "NaN", w |-> "NaN"]]

\* C16: tuple arithmetic keeps the point/vector tag: Tuple::point builds
\* w = 1 and Tuple::vector w = 0 around the coordinates given; point - point
\* and vector - vector have w = 0; point + vector and point - vector have
\* w = 1.
C16_ArithmeticKeepsTag ==
    pc = "done" =>
        /\ args.op = "point" => ret = Tuple_new(args.x, args.y, args.z, Scale)
        /\ args.op = "vector" => ret = Tuple_new(args.x, args.y, args.z, 0)
        /\ args.op = "add" /\ args.a.w = Scale /\ args.b.w = 0 => ret.w = Scale
        /\ args.op = "subtract" /\ args.a.w = Scale /\ args.b.w = Scale => ret.w = 0
        /\ args.op = "subtract" /\ args.a.w = Scale /\ args.b.w = 0 => ret.w = Scale
        /\ args.op = "subtract" /\ args.a.w = 0 /\ args.b.w = 0 => ret.w = 0

\* The difference of two distinct points, a vector.
C16_Witness ==
    /\ pc = "done"
    /\ args.op = "subtract"
    /\ args.a = point(Scale \div 3, 0, -Scale)
    /\ args.b = point(-Scale, 0, -Scale)
    /\ ret = vector(Scale \div 3 + Scale, 0, 0)

\* C17: is_point() is true exactly when w equals 1.0 and is_vector() exactly
\* when w equals 0.0, so that a tuple whose w is neither is reported as
\* neither a point nor a vector.
C17_TagTests ==
    pc = "done" =>
        /\ args.op = "is_point" => (ret <=> args.a.w = Scale)
        /\ args.op = "is_vector" => (ret <=> args.a.w = 0)

\* A tuple with w = 2, the sum of two points, reported as a vector.
C17_Witness ==
    /\ pc = "done"
    /\ args.op = "is_vector"
    /\ args.a = add(point(0, 0, 0), point(0, 0, 0))
    /\ args.a.w = 2 * Scale
    /\ ret = TRUE

\* C18: the cross product is anti-commutative and always a vector: a.cross(b)
\* is the negation of b.cross(a) in x, y and z, and both have w = 0 whatever
\* the w of a and b.
C18_CrossAntiCommutes ==
    pc = "done" /\ args.op = "cross" =>
        Let(cross(args.b, args.a), LAMBDA swapped :
            /\ ret.w = 0
            /\ swapped.w = 0
            /\ ret.x = -swapped.x
            /\ ret.y = -swapped.y
            /\ ret.z = -swapped.z)

\* A cross product of two tuples with non-zero w whose result is not zero and
\* whose products are rounded.
C18_Witness ==
    /\ pc = "done"
    /\ args.op = "cross"
    /\ args.a.w = Scale
    /\ args.b.w = 2 * Scale
    /\ ret.x # 0
    /\ ret.x % (Scale \div 3) # 0
    /\ ret.w = 0

------------------------------------------------------------------------------
(* Matrix4: a matrix multiplied by its inverse.                              *)

\* Matrices with integer entries and determinant 1
LowerUnit ==
    Matrix4_rows(<<Scale, 0, 0, 0>>,
                 <<2 * Scale, Scale, 0, 0>>,
                 <<-Scale, 3 * Scale, Scale, 0>>,
                 <<0, Scale, -2 * Scale, Scale>>)
UpperUnit ==
    Matrix4_rows(<<Scale, 2 * Scale, 0, -Scale>>,
                 <<0, Scale, 3 * Scale, Scale>>,
                 <<0, 0, Scale, 2 * Scale>>,
                 <<0, 0, 0, Scale>>)

\* The matrices a and b of the test matrix_multiply_by_inverse
\* (matrix4.rs:499-509) and a of the test matrix_inverse (matrix4.rs:441-445)
MultiplyTestA ==
    Matrix4_rows(<<3 * Scale, -9 * Scale, 7 * Scale, 3 * Scale>>,
                 <<3 * Scale, -8 * Scale, 2 * Scale, -9 * Scale>>,
                 <<-4 * Scale, 4 * Scale, 4 * Scale, Scale>>,
                 <<-6 * Scale, 5 * Scale, -Scale, Scale>>)
MultiplyTestB ==
    Matrix4_rows(<<8 * Scale, 2 * Scale, 2 * Scale, 2 * Scale>>,
                 <<3 * Scale, -Scale, 7 * Scale, 0>>,
                 <<7 * Scale, 0, 5 * Scale, 4 * Scale>>,
                 <<6 * Scale, -2 * Scale, 0, 5 * Scale>>)
InverseTestA ==
    Matrix4_rows(<<-5 * Scale, 2 * Scale, 6 * Scale, -8 * Scale>>,
                 <<Scale, -5 * Scale, Scale, 8 * Scale>>,
                 <<7 * Scale, 7 * Scale, -6 * Scale, -7 * Scale>>,
                 <<Scale, -3 * Scale, 7 * Scale, 4 * Scale>>)

\* Matrices whose entries are halves and whose determinant is a power of
\* two: the cofactors, the quotients and the products are computed without
\* rounding, in f64 as on the grid.  The matrices of the tests have the
\* determinants -378 and 532: the quotients of their inverses are rounded.
ExactMatrices ==
    {IDENTITY, LowerUnit, UpperUnit, mul_matrix(LowerUnit, UpperUnit),
     mul_matrix(UpperUnit, LowerUnit)}
    \cup {mul_matrix(mul_matrix(translation(Scale, -Scale, 2 * Scale), scaling(a, b, c)), u) :
            a, b, c \in {Tenths(5), 2 * Scale}, u \in {IDENTITY, UpperUnit}}
RoundTripMatrices == ExactMatrices \cup {MultiplyTestB, InverseTestA, NotInvertible}
RoundTripInputs ==
    {[op |-> "M*inverse(M)", m |-> m] : m \in RoundTripMatrices}
    \cup {[op |-> "(A*B)*inverse(B)", a |-> a, m |-> m] :
            a \in {MultiplyTestA, LowerUnit, IDENTITY}, m \in RoundTripMatrices}

\* m.mul_matrix(&m.inverse())
CallMulInverse ==
    /\ args.op = "M*inverse(M)"
    /\ Return(LetUnwind(inverse(args.m), LAMBDA inv : mul_matrix(args.m, inv)))
\* a.mul_matrix(&b).mul_matrix(&b.inverse()), as in matrix_multiply_by_inverse
CallMulMulInverse ==
    /\ args.op = "(A*B)*inverse(B)"
    /\ Return(Let(mul_matrix(args.a, args.m), LAMBDA c :
              LetUnwind(inverse(args.m), LAMBDA inv : mul_matrix(c, inv))))

InitRoundTrip == CallInit(RoundTripInputs)
NextRoundTrip == CallMulInverse \/ CallMulMulInverse
SpecRoundTrip == InitRoundTrip /\ [][NextRoundTrip]_vars

\* The cofactors of m, transposed
Adjugate(m) == [i \in 0..15 |-> cofactor(m, i % 4, i \div 4)]

------------------------------------------------------------------------------
(* sphere_object_intersect, called with rays in object space.                *)

SphereOrigins ==
    {point(x, y, z) : x \in {-Scale, 0, Scale}, y \in {0, Tenths(5), Scale, 2 * Scale},
                      z \in {-5 * Scale, 0, 5 * Scale}}
\* Directions, normalized or not; none is the zero vector
SphereDirections ==
    {vector(0, 0, Scale), vector(0, 0, -Scale), vector(0, Scale, 0), vector(Scale, 0, 0),
     vector(0, 0, 2 * Scale), vector(0, Tenths(5), Scale), vector(Tenths(1), 0, -Tenths(3))}
SphereInputs ==
    {[sphere |-> s, ray |-> Ray_new(o, d)] :
        s \in {1, 2}, o \in SphereOrigins, d \in SphereDirections}

CallSphereIntersect == Return(sphere_object_intersect(args.sphere, args.ray))

InitSphere == CallInit(SphereInputs)
NextSphere == CallSphereIntersect
SpecSphere == InitSphere /\ [][NextSphere]_vars

\* b^2 - 4ac for the ray of the call under check: a = d.d, b = 2 d.o,
\* c = o.o - 1, o the ray's origin as a vector from the sphere's centre
Discriminant ==
    LET o == vector(args.ray.origin.x, args.ray.origin.y, args.ray.origin.z)
        d == args.ray.direction
        b == 2 * dot(d, o)
    IN  FxMul(b, b) - FxMul(4 * dot(d, d), dot(o, o) - Scale)

\* C19: the sphere's local intersection returns no intersection exactly when
\* the discriminant is negative and otherwise exactly two, both referencing
\* the sphere, the first t at most the second and equal to it when the ray
\* is tangent.
C19_SphereZeroOrTwo ==
    pc = "done" =>
        /\ Len(ret) \in {0, 2}
        /\ Len(ret) = 0 <=> Discriminant < 0
        /\ Len(ret) = 2 =>
            /\ ret[1].obj = args.sphere
            /\ ret[2].obj = args.sphere
            /\ ret[1].t <= ret[2].t
            /\ Discriminant = 0 => ret[1].t = ret[2].t

\* The tangent ray of the test sphere_intersect_one_point
\* (ray.rs:150-158): two intersections at t = 5.
C19_Witness ==
    /\ pc = "done"
    /\ args.ray = Ray_new(point(0, Scale, -5 * Scale), vector(0, 0, Scale))
    /\ Discriminant = 0
    /\ Len(ret) = 2
    /\ ret[1].t = 5 * Scale
    /\ ret[2].t = 5 * Scale

------------------------------------------------------------------------------
(* World::prepare_computations, called with the intersections of a ray and   *)
(* an object.                                                                *)

PrepareObjects ==
    <<Object_SPHERE,
      Object("Sphere", Material_DEFAULT, translation(0, 0, Scale)),
      Object("Sphere", Material_DEFAULT, scaling(2 * Scale, Tenths(5), 2 * Scale)),
      Object_PLANE>>
PrepareRays ==
    {Ray_new(point(0, y, z), d) :
        y \in {0, Tenths(2), Scale}, z \in {-5 * Scale, 0, Tenths(5)},
        d \in {vector(0, 0, Scale), vector(0, 0, -Scale), vector(0, -Scale, 0),
               vector(0, Scale, 0), vector(0, -Tenths(6), Tenths(8))}}
\* The intersections of the ray r and the object o
PrepareHits(o, r) ==
    Let(Intersections_intersect(PrepareObjects, o, r), LAMBDA xs : {xs[k] : k \in DOMAIN xs})
PrepareInputs ==
    UNION {{[intersection |-> i, ray |-> r] : i \in PrepareHits(o, r)} :
           o \in DOMAIN PrepareObjects, r \in PrepareRays}

CallPrepareComputations ==
    Return(prepare_computations(PrepareObjects, args.intersection, args.ray))

InitPrepare == CallInit(PrepareInputs)
NextPrepare == CallPrepareComputations
SpecPrepare == InitPrepare /\ [][NextPrepare]_vars

\* The object's normal at the point of the intersection under check
PrimitiveNormal ==
    normal_at(PrepareObjects[args.intersection.obj],
              position(args.ray, args.intersection.t))

\* C20: prepare_computations returns point = ray.position(t) and
\* eye = -ray.direction; its normal never points away from the eye; is_inside
\* is true exactly when the object's normal at point had a negative dot
\* product with eye, and the normal returned is then its negation;
\* over_point = point + normal * EPSILON with the normal returned.
C20_PrepareComputations ==
    pc = "done" =>
        /\ ret.point = position(args.ray, args.intersection.t)
        /\ ret.eye = negate(args.ray.direction)
        /\ dot(ret.normal, ret.eye) >= 0
        /\ ret.is_inside <=> dot(PrimitiveNormal, ret.eye) < 0
        /\ ret.normal = IF ret.is_inside THEN negate(PrimitiveNormal) ELSE PrimitiveNormal
        /\ ret.over_point = add(ret.point, scalar_mul(ret.normal, EPSILON))
        /\ ret.obj = args.intersection.obj

\* The hit of the test precompute_intersection_inside (world.rs): the ray
\* starts at the centre of the unit sphere and leaves it at t = 1, where the
\* sphere's normal (0, 0, 1) is returned negated.
C20_Witness ==
    /\ pc = "done"
    /\ args.ray = Ray_new(point(0, 0, 0), vector(0, 0, Scale))
    /\ args.intersection = Intersection(Scale, 1)
    /\ PrimitiveNormal = vector(0, 0, Scale)
    /\ ret.is_inside
    /\ ret.normal = vector(0, 0, -Scale)
    /\ ret.point = point(0, 0, Scale)
    /\ ret.over_point = point(0, 0, Scale - EPSILON)

------------------------------------------------------------------------------
(* view_transform, called with distinct points from and to and a non-zero    *)
(* up.                                                                       *)

ViewFroms == {point(0, 0, 0), point(0, 0, 8 * Scale), point(Scale, 3 * Scale, 2 * Scale),
              point(-Scale, Tenths(5), 0), point(0, -2 * Scale, Tenths(3))}
ViewTos == {point(0, 0, -Scale), point(0, 0, Scale), point(0, 0, 0),
            point(4 * Scale, -2 * Scale, 8 * Scale), point(Scale, 0, 0)}
ViewUps == {vector(0, Scale, 0), vector(Scale, Scale, 0), vector(0, 0, 2 * Scale)}
ViewInputs ==
    {[from |-> f, to |-> t, up |-> u] :
        f \in ViewFroms, t \in ViewTos \ ViewFroms, u \in ViewUps}
    \cup {[from |-> f, to |-> point(0, 0, 0), up |-> u] :
            f \in ViewFroms \ {point(0, 0, 0)}, u \in ViewUps}

CallViewTransform == Return(view_transform(args.from, args.to, args.up))

InitView == CallInit(ViewInputs)
NextView == CallViewTransform
SpecView == InitView /\ [][NextView]_vars

\* forward, left and true_up of the call under check
ViewForward == normalize(subtract(args.to, args.from))
ViewLeft == cross(ViewForward, normalize(args.up))
ViewTrueUp == cross(ViewLeft, ViewForward)

\* Row r of the matrix returned is the vector v followed by the entry that
\* takes the point from to 0: -(v . from)
ViewRow(r, v) ==
    /\ ret[4 * r] = v.x
    /\ ret[4 * r + 1] = v.y
    /\ ret[4 * r + 2] = v.z
    /\ ret[4 * r + 3] = -(FxMul(v.x, args.from.x) + FxMul(v.y, args.from.y)
                          + FxMul(v.z, args.from.z))

------------------------------------------------------------------------------
(* Pattern: the local color of a pattern-space point, and color_at with an   *)
(* object transform and a pattern transform.                                 *)

RED == Color_new(Scale, 0, 0)
PatternXs == {-2 * Scale, -Tenths(11), -Scale, -Tenths(1), -1, 0, Tenths(9), Scale,
              Tenths(15), 2 * Scale, 3 * Scale - 1, 3 * Scale}
PatternYZs == {-Scale, -Tenths(1), 0, Tenths(5), 2 * Scale}

\* A transform by its kind and its three factors
PatternTransforms ==
    {[kind |-> "scaling", x |-> 2 * Scale, y |-> 2 * Scale, z |-> 2 * Scale],
     [kind |-> "scaling", x |-> Tenths(5), y |-> 2 * Scale, z |-> Scale],
     [kind |-> "scaling", x |-> Scale, y |-> Scale, z |-> Scale],
     [kind |-> "translation", x |-> Tenths(5), y |-> 2 * Scale, z |-> 2 * Scale],
     [kind |-> "translation", x |-> -Scale, y |-> 0, z |-> Tenths(5)]}
TransformOf(t) ==
    IF t.kind = "scaling" THEN scaling(t.x, t.y, t.z) ELSE translation(t.x, t.y, t.z)
\* What the inverse of the transform does to a point
Undo(t, p) ==
    IF t.kind = "scaling"
    THEN point(FxDiv(p.x, t.x), FxDiv(p.y, t.y), FxDiv(p.z, t.z))
    ELSE point(p.x - t.x, p.y - t.y, p.z - t.z)

PatternOf(kind, transform) ==
    CASE kind = "Stripe" -> Stripe(WHITE, BLACK, transform)
      [] kind = "Gradient" -> Gradient(WHITE, BLACK, transform)
      [] kind = "Checker" -> Checker(WHITE, BLACK, transform)
      [] kind = "Constant" -> Constant(RED)

PatternInputs ==
    {[op |-> "pattern_color_at", pattern |-> Stripe(a, b, IDENTITY), point |-> point(x, y, z)] :
        a \in {WHITE}, b \in {BLACK, RED}, x \in PatternXs, y, z \in PatternYZs}
    \cup {[op |-> "color_at", kind |-> k, object |-> o, pattern |-> t,
           point |-> point(x, y, 0)] :
            k \in {"Stripe", "Gradient", "Checker", "Constant"},
            o, t \in PatternTransforms,
            x \in {-Tenths(15), 0, Tenths(15), Tenths(25), Scale}, y \in {0, Tenths(15)}}

CallPatternLocal ==
    /\ args.op = "pattern_color_at"
    /\ Return(pattern_color_at(args.pattern, args.point))
CallPatternWorld ==
    /\ args.op = "color_at"
    /\ Return(Pattern_color_at(PatternOf(args.kind, TransformOf(args.pattern)),
                               Object("Sphere", Material_DEFAULT, TransformOf(args.object)),
                               args.point))

InitPattern == CallInit(PatternInputs)
NextPattern == CallPatternLocal \/ CallPatternWorld
SpecPattern == InitPattern /\ [][NextPattern]_vars

\* x lies in [2k, 2k + 1) for an integer k: floor(x) is even (|x| < 16)
EvenFloor(x) == \E k \in -8..8 : 2 * k * Scale <= x /\ x < (2 * k + 1) * Scale

\* C22: the stripe pattern's local color depends only on x: a when floor(x)
\* is even and b when it is odd, for negative x as well, whatever y and z.
C22_StripeByFloorOfX ==
    pc = "done" /\ args.op = "pattern_color_at" =>
        ret = IF EvenFloor(args.point.x) THEN args.pattern.a ELSE args.pattern.b

\* A point with floor(x) = -1 and non-zero y and z: color b.
C22_Witness ==
    /\ pc = "done"
    /\ args.op = "pattern_color_at"
    /\ args.point = point(-Tenths(1), 2 * Scale, -Tenths(1))
    /\ args.pattern.b = RED
    /\ ret = RED

\* C23: Pattern::color_at takes the world point into object space by the
\* inverse of the object's transform first and into pattern space by the
\* inverse of the pattern's transform second, and returns the local color
\* there; a constant pattern returns its value for every point and every
\* object transform.
C23_ColorAtUndoesObjectThenPattern ==
    pc = "done" /\ args.op = "color_at" =>
        Let(Undo(args.pattern, Undo(args.object, args.point)), LAMBDA pattern_point :
            /\ ret = pattern_color_at(PatternOf(args.kind, IDENTITY), pattern_point)
            /\ args.kind = "Stripe" =>
                 ret = IF EvenFloor(pattern_point.x) THEN WHITE ELSE BLACK
            /\ args.kind = "Constant" => ret = RED)

\* The call of the test stripe_object_pattern_transform (pattern.rs:203-219):
\* object scaling(2, 2, 2), pattern translation(0.5, 2, 2), point
\* (2.5, 0, 0), white; with the two inverses in the other order, black.
C23_Witness ==
    /\ pc = "done"
    /\ args.op = "color_at"
    /\ args.kind = "Stripe"
    /\ args.object = [kind |-> "scaling", x |-> 2 * Scale, y |-> 2 * Scale, z |-> 2 * Scale]
    /\ args.pattern = [kind |-> "translation", x |-> Tenths(5), y |-> 2 * Scale, z |-> 2 * Scale]
    /\ args.point = point(Tenths(25), 0, 0)
    /\ ~EvenFloor(Undo(args.object, Undo(args.pattern, args.point)).x)
    /\ ret = WHITE

------------------------------------------------------------------------------
(* color.rs: PPMBuilder and Canvas::generate_ppm.  A String is the sequence  *)
(* of its characters.                                                        *)

DigitChars == <<"0", "1", "2", "3", "4", "5", "6", "7", "8", "9">>

\* format!("{}", n) for 0 <= n < 1000
Format(n) ==
    IF n < 10 THEN <<DigitChars[n + 1]>>
    ELSE IF n < 100 THEN <<DigitChars[(n \div 10) + 1], DigitChars[(n % 10) + 1]>>
    ELSE <<DigitChars[(n \div 100) + 1], DigitChars[((n \div 10) % 10) + 1], DigitChars[(n % 10) + 1]>>

\* PPMBuilder::new: format!("P3\n{} {}\n255\n", width, height)
PPMBuilder_new(width, height) ==
    [result |-> <<"P", "3", "\n">> \o Format(width) \o <<" ">> \o Format(height)
                \o <<"\n", "2", "5", "5", "\n">>,
     current_line |-> << >>]

\* f64::round (half away from zero) of f * 255.0, `as i32`, .max(0).min(255)
component(f) ==
    Let(FxMul(f, 255 * Scale), LAMBDA v :
    Let(Sign(v) * ((Abs(v) + Scale \div 2) \div Scale), LAMBDA rounded :
        IF rounded < 0 THEN 0 ELSE IF rounded > 255 THEN 255 ELSE rounded))

force_next_line(self) ==
    IF self.current_line # << >>
    THEN [result |-> self.result \o self.current_line \o <<"\n">>, current_line |-> << >>]
    ELSE self

\* add_component with the separating space left out of the length tested
add_component_SpaceNotCounted(self, c) ==
    IF self.current_line = << >>
    THEN [self EXCEPT !.current_line = Format(c)]
    ELSE IF Len(self.current_line) + Len(Format(c)) > 70
         THEN [force_next_line(self) EXCEPT !.current_line = Format(c)]
         ELSE [self EXCEPT !.current_line = self.current_line \o <<" ">> \o Format(c)]

add_component(self, c) ==
    IF self.current_line = << >>
    THEN [self EXCEPT !.current_line = Format(c)]
    ELSE IF Len(self.current_line) + Len(<<" ">> \o Format(c)) > 70
         THEN [force_next_line(self) EXCEPT !.current_line = Format(c)]
         ELSE [self EXCEPT !.current_line = self.current_line \o <<" ">> \o Format(c)]

add_color(self, color) ==
    add_component(add_component(add_component(self, component(color.red)),
                                component(color.green)),
                  component(color.blue))

MaxPpmWidth == 7
MaxPpmHeight == 2

\* The test's color (255 204 153), one clamped at both ends (255 0 0), a
\* grey rounded up (128 128 128) and black
PpmColors ==
    <<Color_new(Scale, Tenths(8), Tenths(6)), Color_new(3 * Tenths(5), 0, -Tenths(5)),
      Color_new(Tenths(5), Tenths(5), Tenths(5)), BLACK>>
\* Canvases painted in one color, or in two or three colors in turn
PpmCanvases ==
    {[pixels |-> [i \in 1..(w * h) |-> PpmColors[p[(i % Len(p)) + 1]]],
      width |-> w, height |-> h] :
        w \in 0..MaxPpmWidth, h \in 0..MaxPpmHeight,
        p \in {<<1>>, <<4>>, <<3>>, <<1, 2>>, <<1, 4, 3>>}}

\* Canvas::generate_ppm: `let mut ppm_bulder = PPMBuilder::new(..)`, held in
\* ret until its result is returned
InitPpm ==
    /\ pc = "ppm"
    /\ image \in PpmCanvases
    /\ args = << >>
    /\ ret = PPMBuilder_new(image.width, image.height)
    /\ px = 0
    /\ py = 0
    /\ todo = {}
    /\ written = << >>

\* The body of the inner loop: self.pixel_at(x, y).map(|p| add_color(p))
PpmAddColor ==
    /\ pc = "ppm"
    /\ py < image.height
    /\ px < image.width
    /\ Let(pixel_at(image, px, py), LAMBDA p :
           ret' = IF p = None THEN ret ELSE add_color(ret, p.value))
    /\ px' = px + 1
    /\ UNCHANGED <<pc, args, image, py, todo, written>>

\* The end of a row: force_next_line, and the next y
PpmNextRow ==
    /\ pc = "ppm"
    /\ py < image.height
    /\ px = image.width
    /\ ret' = force_next_line(ret)
    /\ px' = 0
    /\ py' = py + 1
    /\ UNCHANGED <<pc, args, image, todo, written>>

\* After the loops: force_next_line, and the result is returned
PpmReturn ==
    /\ pc = "ppm"
    /\ py = image.height
    /\ ret' = force_next_line(ret).result
    /\ pc' = "done"
    /\ UNCHANGED <<args, image, px, py, todo, written>>

NextPpm == PpmAddColor \/ PpmNextRow \/ PpmReturn
SpecPpm == InitPpm /\ [][NextPpm]_vars

\* The positions of the line ends of the string s, and 0
LineEnds(s) == {0} \cup {i \in 1..Len(s) : s[i] = "\n"}
\* The positions at which a token (a run without space or line end) starts
TokenStarts(s) ==
    {i \in 1..Len(s) : s[i] \notin {" ", "\n"} /\ (i = 1 \/ s[i - 1] \in {" ", "\n"})}
\* The token starting at i
TokenAt(s, i) ==
    SubSeq(s, i, (CHOOSE j \in i..Len(s) + 1 :
                    /\ j = Len(s) + 1 \/ s[j] \in {" ", "\n"}
                    /\ \A k \in i..(j - 1) : s[k] \notin {" ", "\n"}) - 1)
\* The k-th element of a set of numbers
Nth(S, k) == CHOOSE i \in S : Cardinality({j \in S : j <= i}) = k
\* The tokens of s in order
Tokens(s) == [k \in 1..Cardinality(TokenStarts(s)) |-> TokenAt(s, Nth(TokenStarts(s), k))]

\* The components of the canvas in row-major order, red, green and blue per
\* pixel, each as a number
Components(canvas) ==
    [k \in 1..(3 * Len(canvas.pixels)) |->
        LET c == canvas.pixels[((k - 1) \div 3) + 1]
        IN  component(<<c.red, c.green, c.blue>>[((k - 1) % 3) + 1])]

\* C24: in the output of generate_ppm no line is longer than 70 characters;
\* after the three header lines its tokens are the components of the
\* pixels in row-major order, red, green, blue, none split across lines;
\* the first component of each canvas row starts a line; the output ends
\* with a newline.
C24_PpmLines ==
    pc = "done" =>
        /\ \A i \in LineEnds(ret) \ {0} : \E j \in LineEnds(ret) : j < i /\ i - j - 1 <= 70
        /\ ret[Len(ret)] = "\n"
        /\ Let(Tokens(ret), LAMBDA tokens :
               /\ Len(tokens) = 4 + 3 * Len(image.pixels)
               /\ \A k \in 1..(3 * Len(image.pixels)) :
                    tokens[4 + k] = Format(Components(image)[k])
               /\ \A y \in 0..(image.height - 1) :
                    image.width > 0 =>
                        Nth(TokenStarts(ret), 4 + 3 * image.width * y + 1) - 1 \in LineEnds(ret))

\* The color of the test test_canvas_generate_ppm_long_lines on a canvas 7
\* pixels wide: each row takes a line of 17 components, 67 characters long,
\* and a second line; the sixth pixel's red and green end the first and its
\* blue starts the second.
C24_Witness ==
    /\ pc = "done"
    /\ image.width = 7
    /\ image.height = 2
    /\ \A i \in DOMAIN image.pixels : image.pixels[i] = Color_new(Scale, Tenths(8), Tenths(6))
    /\ Cardinality(LineEnds(ret)) = 8
    /\ \E i \in LineEnds(ret) : i + 68 \in LineEnds(ret)
    /\ SubSeq(ret, Len(ret) - 3, Len(ret)) = <<"1", "5", "3", "\n">>

------------------------------------------------------------------------------
(* The references of the intersections of World::intersect *)

\* The t of the local intersections of the object with the ray taken into
\* its object space, whatever they reference
LocalTs(object, ray) ==
    Let(Ray_transform(ray, inverse(object.transform)), LAMBDA object_ray :
    Let(IF object.object_type = "Sphere" THEN sphere_object_intersect(0, object_ray)
        ELSE plane_object_intersect(0, object_ray), LAMBDA xs :
        [k \in DOMAIN xs |-> xs[k].t]))

\* C25: every intersection of Intersections::intersect on an object
\* references that object; every intersection of World::intersect, sorted,
\* references an object of the world's own collection, its t is one the local
\* intersect of that object produced, and each object is referenced by as
\* many intersections as its local intersect produced.
C25_IntersectionsReferenceTheirObject ==
    pc = "done" =>
        /\ \A o \in DOMAIN args.world.objects :
             Let(Intersections_intersect(args.world.objects, o, args.ray), LAMBDA xs :
                 \A k \in DOMAIN xs : xs[k].obj = o)
        /\ \A k \in DOMAIN ret :
             /\ ret[k].obj \in DOMAIN args.world.objects
             /\ Let(LocalTs(args.world.objects[ret[k].obj], args.ray), LAMBDA ts :
                    \E j \in DOMAIN ts : ts[j] = ret[k].t)
        /\ \A o \in DOMAIN args.world.objects :
             Cardinality({k \in DOMAIN ret : ret[k].obj = o})
                 = Len(LocalTs(args.world.objects[o], args.ray))

\* The same sphere twice in the collection: after the sort the intersections
\* with the same t lie side by side, one per reference.
C25_Witness ==
    /\ pc = "done"
    /\ args.world = WorldTwins
    /\ Len(ret) = 4
    /\ ret[1].t = ret[2].t /\ ret[3].t = ret[4].t /\ ret[2].t < ret[3].t
    /\ <<ret[1].obj, ret[2].obj, ret[3].obj, ret[4].obj>> = <<1, 2, 1, 2>>

------------------------------------------------------------------------------
(* What Camera::render leaves alone *)

\* C26: rendering never mutates its inputs: no step of Camera::render, with
\* the color_at, intersect, is_shadowed and shade_hit calls it makes, changes
\* the world's light or objects or the camera's fields, and the canvas
\* returned is the one a second render of the same world with the same camera
\* returns.
C26_RenderLeavesInputsUnchanged ==
    [][/\ args'.world = args.world
       /\ args'.camera = args.camera
       /\ pc' = "done" => ret' = render(args'.camera, args'.world)]_vars

\* A finished render of the world of the test shade_intersection_shadow:
\* the light, the objects and the camera are those it was called with.
C26_Witness ==
    /\ pc = "done"
    /\ args.world = WorldShadow
    /\ args.world.light = WorldShadow.light
    /\ Len(args.world.objects) = 2
    /\ args.camera.hsize = MaxHSize
    /\ ret.width = args.camera.hsize
    /\ ret = render(args.camera, args.world)

------------------------------------------------------------------------------
(* Camera::render to its end: cameras of every size from 0 x 0, the camera  *)
(* at the origin looking down -z or in front of the scene, and worlds whose  *)
(* transforms are all invertible.  The loop runs in the calling thread and   *)
(* nothing makes it wait, so a step that can be taken is taken.              *)

\* A unit sphere five units down the -z axis
SphereAhead == Object("Sphere", Material_DEFAULT, translation(0, 0, -5 * Scale))

WorldAhead == World_new(DEFAULT_LIGHT, <<SphereAhead>>)

\* The light placed where the ray from the origin down -z leaves the sphere's
\* surface: at the hit (0, 0, -4) moved by EPSILON along the normal (0, 0, 1),
\* the over_point of that hit (world.rs:98).
WorldLightAtOverPoint ==
    World_new(PointLight(point(0, 0, -4 * Scale + EPSILON), WHITE), <<SphereAhead>>)

TerminateTransforms ==
    {IDENTITY,
     view_transform(point(0, 0, -5 * Scale), point(0, 0, 0), vector(0, Scale, 0))}
TerminateInputs ==
    {[camera |-> Camera_new(h, v, PI_2, tr), world |-> w] :
        h \in 0..MaxHSize, v \in 0..MaxVSize, tr \in TerminateTransforms,
        w \in {WorldDefault, WorldAhead, WorldLightAtOverPoint}}

\* A step of render seen from outside: while the call runs, the position in
\* the code or in the loops moves.  Every step of Next is one (RenderStart
\* and RenderReturn change pc; RenderPixel changes x or y, or pc when it
\* panics), and one is possible exactly when a step of Next is.
RenderStep ==
    /\ pc \in {"call", "loop"}
    /\ pc' \in {"loop", "done", "panic"}
    /\ px' \in 0..MaxHSize
    /\ py' \in 0..MaxVSize

InitTerminate == CallInit(TerminateInputs)
SpecTerminate == InitTerminate /\ [][Next]_vars /\ WF_<<pc, px, py>>(RenderStep)

WrittenAt(x, y) == {i \in 1..Len(written) : written[i].x = x /\ written[i].y = y}

\* C28: Camera::render terminates for every camera with hsize >= 0 and
\* vsize >= 0 and every world with invertible transforms, after exactly
\* hsize x vsize pixel writes: each coordinate of [0,hsize) x [0,vsize) is
\* written exactly once, every write finds its cell of the canvas, and no
\* coordinate outside that range is written.
C28_RenderTerminates ==
    /\ <>(pc = "done")
    /\ [](pc = "done" =>
            /\ Len(written) = args.camera.hsize * args.camera.vsize
            /\ \A x \in 0..(args.camera.hsize - 1) : \A y \in 0..(args.camera.vsize - 1) :
                   Cardinality(WrittenAt(x, y)) = 1)
    /\ [](\A i \in 1..Len(written) :
            /\ written[i].some
            /\ 0 <= written[i].x /\ written[i].x < args.camera.hsize
            /\ 0 <= written[i].y /\ written[i].y < args.camera.vsize)

\* A render of 3 x 3 pixels that panics at the centre pixel, after the four
\* writes before it: the pixel's ray hits the sphere where the light is, the
\* shadow ray's direction is NaN, and sorting the sphere's two NaN
\* intersections panics.
C28_Witness ==
    /\ pc = "panic"
    /\ args.world = WorldLightAtOverPoint
    /\ args.camera.hsize = 3
    /\ args.camera.vsize = 3
    /\ px = 1
    /\ py = 1
    /\ Len(written) = 4
    /\ is_shadowed_panics(args.world, args.world.light.position)
    /\ is_shadowed(args.world, args.world.light.position) = Panic

------------------------------------------------------------------------------
(* Canvas::write_pixel called with any coordinates, from one column or row   *)
(* before the canvas to one past it.  args is the list of the calls made,    *)
(* each with the canvas it was made on; after a call pc is "wrote", (px, py) *)
(* are its coordinates and ret is what it returned.  A call that panics      *)
(* leaves the canvas as it was.                                              *)

CanvasWriteAny ==
    /\ pc \in {"canvas", "wrote"}
    /\ Len(args) < MaxWrites
    /\ \E x \in -1..image.width, y \in -1..image.height, color \in CanvasColors :
        /\ ret' = write_pixel_returns(image, x, y)
        /\ image' = IF write_pixel(image, x, y, color) = Panic THEN image
                    ELSE write_pixel(image, x, y, color)
        /\ args' = Append(args, [x |-> x, y |-> y, color |-> color, before |-> image])
        /\ px' = x
        /\ py' = y
    /\ pc' = "wrote"
    /\ UNCHANGED <<todo, written>>

NextWritePixel == CanvasWriteAny
SpecWritePixel == InitCanvas /\ [][NextWritePixel]_vars

\* C29: write_pixel(x, y, color) with a coordinate outside
\* [0,width) x [0,height) returns None and leaves every pixel of the canvas
\* unchanged: it never overwrites the pixel of another, in-range coordinate.
C29_WriteOutOfRangeChangesNothing ==
    (pc = "wrote" /\ ~InRange(image, px, py)) =>
        /\ ret = None
        /\ image = args[Len(args)].before

\* The claim's example: on a canvas two rows high, the write at x = width,
\* y = 0 returns Some(()) and the pixel (0, 1), black before, has its color.
C29_Witness ==
    /\ pc = "wrote"
    /\ px = image.width
    /\ py = 0
    /\ image.height = 2
    /\ ret = Some(<< >>)
    /\ pixel_at(args[Len(args)].before, 0, 1) = Some(BLACK)
    /\ pixel_at(image, 0, 1) = Some(args[Len(args)].color)

------------------------------------------------------------------------------
(* World::is_shadowed: the nearest hit against every intersection *)

\* The intersections of the shadow ray with the object `i` of the world alone
ShadowIntersectionsOf(world, pt, i) ==
    Intersections_intersect(world.objects, i, ShadowRay(world, pt))

\* Some intersection of the shadow ray lies between the point and the light
Occluded(world, pt) ==
    \E i \in 1..Len(world.objects) :
        \E k \in 1..Len(ShadowIntersectionsOf(world, pt, i)) :
            /\ ShadowIntersectionsOf(world, pt, i)[k].t >= 0
            /\ ShadowIntersectionsOf(world, pt, i)[k].t < LightDistance(world, pt) - EPSILON

\* The objects that do not decide the answer: those whose intersections all
\* lie behind the point or farther along the ray than another object's
\* intersection in front of the point.
Redundant(world, pt) ==
    {i \in 1..Len(world.objects) :
        \A k \in 1..Len(ShadowIntersectionsOf(world, pt, i)) :
            \/ ShadowIntersectionsOf(world, pt, i)[k].t < 0
            \/ \E j \in 1..Len(world.objects) \ {i} :
                   \E l \in 1..Len(ShadowIntersectionsOf(world, pt, j)) :
                       /\ ShadowIntersectionsOf(world, pt, j)[l].t >= 0
                       /\ ShadowIntersectionsOf(world, pt, j)[l].t
                              <= ShadowIntersectionsOf(world, pt, i)[k].t}

\* The world without its object i
Without(world, i) ==
    World_new(world.light,
              [k \in 1..(Len(world.objects) - 1) |->
                  IF k < i THEN world.objects[k] ELSE world.objects[k + 1]])

\* C30: testing only the nearest hit loses nothing: is_shadowed(point) is true
\* if and only if at least one intersection of the shadow ray with any
\* primitive of the world has 0 <= t < distance to the light - EPSILON, and
\* an occluder farther along the ray than another occluder, or one whose
\* intersections lie behind the point, does not change the answer: without
\* it, is_shadowed returns the same.
C30_NearestHitLosesNothing ==
    pc = "done" =>
        /\ ret = Occluded(args.world, args.point)
        /\ \A i \in Redundant(args.world, args.point) :
               is_shadowed(Without(args.world, i), args.point) = ret

\* A point in shadow with a sphere behind it, whose two intersections have
\* negative t, and a sphere in front of it, before the light: the sphere
\* behind is redundant.
C30_Witness ==
    /\ pc = "done"
    /\ ret = TRUE
    /\ Len(args.world.objects) = 2
    /\ Redundant(args.world, args.point) # {}
    /\ \E i \in 1..2 : \E k \in 1..Len(ShadowIntersectionsOf(args.world, args.point, i)) :
           ShadowIntersectionsOf(args.world, args.point, i)[k].t < 0
    /\ \E i \in 1..2 : \A k \in 1..Len(ShadowIntersectionsOf(args.world, args.point, i)) :
           /\ ShadowIntersectionsOf(args.world, args.point, i)[k].t > 0
           /\ ShadowIntersectionsOf(args.world, args.point, i)[k].t
                  < LightDistance(args.world, args.point) - EPSILON

==============================================================================
